---- MODULE Spec2Model ----
(***************************************************************************)
(* envoluntary.  Seven specifications over one set of variables:           *)
(*   Spec          the prompt-hook state machine of `shell export`         *)
(*                 (cli/src/shell.rs, env-hooks/src/state.rs) and the      *)
(*                 shell that evaluates the emitted script                 *)
(*                 (env-hooks/src/shells/bash.rs);                         *)
(*   SpecEngine    the env-diff engine called as a library                 *)
(*                 (env-hooks/src/lib.rs) and the state blob codec         *)
(*                 (EnvoluntaryEnvState in cli/src/shell.rs);              *)
(*   SpecResolver  the directory-to-flake resolver (cli/src/config.rs);    *)
(*   SpecConfig    `config add-entry` and `config print-matching-entries`  *)
(*                 on the config file (cli/src/config.rs);                 *)
(*   SpecCache     the profile cache on disk                               *)
(*                 (nix-dev-env/src/nix_profile_cache.rs), one process     *)
(*                 running get_cache_profile per flake reference, their    *)
(*                 steps interleaved, each step of update() logged and     *)
(*                 able to fail;                                           *)
(*   SpecCalls     hash_files, the nix version probe                       *)
(*                 (nix-dev-env/src/nix_version_check.rs), the evaluation  *)
(*                 mode of each get_cache_profile call and the shell       *)
(*                 emitters (env-hooks/src/shells);                        *)
(*   SpecMatch     the match_rcs callback of print_export                  *)
(*                 (cli/src/shell.rs) over the resolver's config files.    *)
(*                                                                         *)
(* Representation.  A Rust String value of the environment is kept in its  *)
(* ':'-split form, a non-empty sequence of ':'-free elements ("a:b" is     *)
(* <<"a","b">>, "true" is <<"true">>, "" is <<"">>); split and join are    *)
(* inverse on that form, so equality of strings is equality of the element *)
(* sequences.  Option::None is the record None.  The base64 text produced  *)
(* by EnvoluntaryEnvState::encode is a record of kind "blob" around the    *)
(* zstd frame around the JSON document; every other string fails to        *)
(* decode.  An IndexMap is a sequence of <<key, value>> pairs with         *)
(* distinct keys.  In the resolver a path or pattern string is the         *)
(* sequence of its characters.                                             *)
(***************************************************************************)
EXTENDS Integers, Sequences, FiniteSets, TLC

VARIABLES
    env,        \* the shell's exported environment: key -> value or None
    origEnv,    \* history: the environment before the first prompt
    rcs,        \* result of the match_rcs callback for the current directory
    cache,      \* profile cache entry of each flake: "missing", "stale", "fresh"
    phase,      \* "prompt": the hook may run; "eval": its stdout awaits eval
    out,        \* the export process whose stdout awaits eval (NoOut if none)
    applied,    \* history: matched list and exit code of the last export
                \* whose stdout the shell evaluated, and whether every
                \* export so far exited 0
    prompts,    \* number of exports run so far
    call,       \* env-diff engine: the last library call, its arguments and result
    home,       \* resolver: env::home_dir(), a path string or None
    fsys,       \* resolver: the directories of the filesystem
    configFile, \* resolver: the config file, None while it does not exist
    query,      \* resolver: the last matching_entries call and its result
    disk,       \* profile cache: the cache directories and the watched files
    clock,      \* profile cache: the time file writes are stamped with
    procs       \* profile cache: per flake reference, the process that is
                \* running get_cache_profile for it

machineVars == <<env, origEnv, rcs, cache, phase, out, applied, prompts>>
engineVars == <<call>>
resolverVars == <<home, fsys, configFile, query>>
cacheVars == <<disk, clock, procs>>
vars == <<env, origEnv, rcs, cache, phase, out, applied, prompts,
          call, home, fsys, configFile, query, disk, clock, procs>>

----------------------------------------------------------------------------
(* Bounds *)

MaxPrompts == 3    \* exports per behaviour
MaxEntries == 2    \* entries of a map handed to a library function
MaxFlakeRefs == 2  \* flake references of a state record to be encoded
MaxConfigEntries == 2  \* entries of the config file

----------------------------------------------------------------------------
(* Constants of the program *)

ENVOLUNTARY_ENV_STATE_VAR_KEY == "ENVOLUNTARY_ENV_STATE"
ENV_VAR_KEY_PATH == "PATH"
ENV_VAR_KEY_XDG_DATA_DIRS == "XDG_DATA_DIRS"

IGNORED_ENV_VAR_KEYS ==
    {"DIRENV_CONFIG", "DIRENV_BASH", "DIRENV_IN_ENVRC", "COMP_WORDBREAKS",
     "PS1", "OLDPWD", "PWD", "SHELL", "SHELLOPTS", "SHLVL", "_"}

IGNORED_ENV_VAR_PREFIXES == {"__fish", "BASH_FUNC_"}

\* An exported bash function, as `env -0` lists it
BASH_FUNC_KEY == "BASH_FUNC_f%%"

\* env_var_key.starts_with(prefix), for the keys of the model: the exported
\* function is the only one that starts with a prefix of the program
key_starts_with(env_var_key, prefix) ==
    env_var_key = BASH_FUNC_KEY /\ prefix = "BASH_FUNC_"

\* A test that knows the ignored keys only (mutation of ignored_env_var_key)
ignored_env_var_key_exact(env_var_key) == env_var_key \in IGNORED_ENV_VAR_KEYS

ignored_env_var_key(env_var_key) ==
    \/ \E prefix \in IGNORED_ENV_VAR_PREFIXES : key_starts_with(env_var_key, prefix)
    \/ env_var_key \in IGNORED_ENV_VAR_KEYS

----------------------------------------------------------------------------
(* Values *)

None == [kind |-> "none"]
Str(elems) == [kind |-> "str", elems |-> elems]
IsSome(v) == v.kind # "none"

----------------------------------------------------------------------------
(* IndexMap<String, _> as a sequence of <<key, value>> pairs *)

KeysOf(m) == {m[i][1] : i \in DOMAIN m}
KeySeq(m) == [i \in DOMAIN m |-> m[i][1]]
contains_key(m, k) == \E i \in DOMAIN m : m[i][1] = k
IndexOf(m, k) == CHOOSE i \in DOMAIN m : m[i][1] = k
\* IndexMap::get: the value, or None when the key is missing
get(m, k) == IF contains_key(m, k) THEN m[IndexOf(m, k)][2] ELSE None
\* IndexMap::insert: replaces the value in place, or appends a new entry
insert(m, k, v) ==
    IF contains_key(m, k)
    THEN [i \in DOMAIN m |-> IF m[i][1] = k THEN <<k, v>> ELSE m[i]]
    ELSE Append(m, <<k, v>>)
\* IndexMap::shift_remove: removes the entry, keeps the order of the rest
shift_remove(m, k) == SelectSeq(m, LAMBDA e : e[1] # k)

\* An extend that keeps the value of a key the map already has (mutation of
\* extend)
extend_keep_existing(m, other) ==
    m \o SelectSeq(other, LAMBDA e : ~contains_key(m, e[1]))

RECURSIVE extend(_, _)
\* Extend::extend: insert every entry of other, in other's order
extend(m, other) ==
    IF other = <<>> THEN m
    ELSE extend(insert(m, other[1][1], other[1][2]), Tail(other))

remove_ignored_env_vars(env_vars) ==
    SelectSeq(env_vars, LAMBDA e : ~ignored_env_var_key(e[1]))

RECURSIVE Dedup(_)
\* collect::<IndexSet<_>>(): first occurrences, in order
Dedup(s) ==
    IF s = <<>> THEN <<>>
    ELSE LET r == Dedup(SubSeq(s, 1, Len(s) - 1))
             x == s[Len(s)]
         IN IF \E i \in DOMAIN r : r[i] = x THEN r ELSE Append(r, x)

\* str::split(delimiter): the parts of a string, each part kept as its own
\* ':'-split form.  No string handed to split contains a delimiter other
\* than ':', so splitting on another delimiter yields the string whole.
split(value, delimiter) ==
    IF delimiter = ":"
    THEN [i \in DOMAIN value.elems |-> <<value.elems[i]>>]
    ELSE <<value.elems>>

\* part a, the delimiter, part b, as one ':'-split form
Glue(a, b, delimiter) ==
    IF delimiter = ":"
    THEN a \o b
    ELSE SubSeq(a, 1, Len(a) - 1) \o <<a[Len(a)] \o delimiter \o b[1]>> \o Tail(b)

RECURSIVE join(_, _)
\* [&str]::join(delimiter) of a non-empty list of parts
join(parts, delimiter) ==
    IF Len(parts) = 1 THEN Str(parts[1])
    ELSE Str(Glue(join(SubSeq(parts, 1, Len(parts) - 1), delimiter).elems,
                  parts[Len(parts)], delimiter))

\* A merge that puts the old elements in front (mutation of
\* merge_delimited_values)
merge_delimited_values_old_first(split_delimiter, join_delimiter, old_value, new_value) ==
    join(Dedup(split(old_value, split_delimiter) \o split(new_value, split_delimiter)),
         join_delimiter)

merge_delimited_values(split_delimiter, join_delimiter, old_value, new_value) ==
    join(Dedup(split(new_value, split_delimiter) \o split(old_value, split_delimiter)),
         join_delimiter)

merge_delimited_env_var(env_var, split_delimiter, join_delimiter, old_env_vars, new_env_vars) ==
    IF contains_key(old_env_vars, env_var) /\ contains_key(new_env_vars, env_var)
    THEN insert(new_env_vars, env_var,
                merge_delimited_values(split_delimiter, join_delimiter,
                                       get(old_env_vars, env_var),
                                       get(new_env_vars, env_var)))
    ELSE new_env_vars

\* A diff that keeps every common key, changed or not (mutation of
\* get_old_env_vars_to_be_updated)
get_old_env_vars_in_new(old_env_vars, new_env_vars) ==
    SelectSeq(old_env_vars, LAMBDA e : contains_key(new_env_vars, e[1]))

get_old_env_vars_to_be_updated(old_env_vars, new_env_vars) ==
    SelectSeq(old_env_vars,
              LAMBDA e : /\ contains_key(new_env_vars, e[1])
                         /\ get(new_env_vars, e[1]) # e[2])

\* A reset that leaves the state variable alone (mutation of
\* get_env_vars_reset)
get_env_vars_reset_no_state_key(old_env_vars_that_were_updated, key_order, env_state_var_key) ==
    [i \in DOMAIN key_order |->
        <<key_order[i], get(old_env_vars_that_were_updated, key_order[i])>>]

\* A reset that also keeps the old variables the new environment does not
\* touch (mutation of get_env_vars_reset)
get_env_vars_reset_keeps_old(old_env_vars_that_were_updated, key_order, env_state_var_key) ==
    insert(extend([i \in DOMAIN key_order |->
                      <<key_order[i], get(old_env_vars_that_were_updated, key_order[i])>>],
                  old_env_vars_that_were_updated),
           env_state_var_key, None)

\* The fold runs over a HashSet, so the caller supplies the iteration order
\* (key_order, some enumeration of new_env_vars' key set).
get_env_vars_reset(old_env_vars_that_were_updated, key_order, env_state_var_key) ==
    insert([i \in DOMAIN key_order |->
               <<key_order[i], get(old_env_vars_that_were_updated, key_order[i])>>],
           env_state_var_key, None)

\* The iteration orders a HashSet with the given elements can have
Orderings(S) ==
    {s \in [1..Cardinality(S) -> S] : \A i, j \in DOMAIN s : s[i] = s[j] => i = j}

----------------------------------------------------------------------------
(* Flakes, their profile rc scripts, and the bash harvester *)

FlakeA == "github:owner/repo"
FlakeB == "/some/flake"
Flakes == {FlakeA, FlakeB}

\* FlakeReference::is_path_type: only a path flake has watched files
IsLocal(f) == f = FlakeB

\* The rc script `nix print-dev-env` wrote for a flake: statements
\* <<key, "set", elems>> (export KEY=value) and <<key, "prepend", elems>>
\* (export KEY="value${KEY:+:}$KEY"), in script order.
ProfileRc(f) ==
    IF f = FlakeA
    THEN << <<"FOO", "set", <<"a">> >>,
            <<"PATH", "prepend", <<"/a/bin">> >>,
            <<"PS1", "set", <<"a> ">> >> >>
    ELSE << <<"FOO", "set", <<"b">> >>,
            <<"XDG_DATA_DIRS", "prepend", <<"/b/share">> >>,
            <<BASH_FUNC_KEY, "set", <<"() { :; }">> >> >>

RECURSIVE SourceRc(_, _)
SourceRc(bash_env, rc) ==
    IF rc = <<>> THEN bash_env
    ELSE LET st == rc[1]
             old == get(bash_env, st[1])
             val == IF st[2] = "prepend" /\ IsSome(old)
                    THEN Str(st[3] \o old.elems)
                    ELSE Str(st[3])
         IN SourceRc(insert(bash_env, st[1], val), Tail(rc))

\* bash -c 'source <rc> && env -0 > <tmp>' run with exactly the seed
\* environment; bash itself adds PWD and SHLVL.  The result is the dump
\* parsed back into (key, value) pairs.
get_env_vars_from_bash(f, env_vars) ==
    SourceRc(extend(env_vars, << <<"PWD", Str(<<"/">>)>>, <<"SHLVL", Str(<<"1">>)>> >>),
             ProfileRc(f))

----------------------------------------------------------------------------
(* The process environment *)

EnvKeys == <<"PATH", "XDG_DATA_DIRS", "FOO", "PS1", ENVOLUNTARY_ENV_STATE_VAR_KEY>>
EnvKeySet == {EnvKeys[i] : i \in DOMAIN EnvKeys}

\* env::vars(): the variables that are set, as (key, value) pairs
get_env_vars_from_current_process(penv) ==
    LET set == SelectSeq(EnvKeys, LAMBDA k : IsSome(penv[k]))
    IN [i \in DOMAIN set |-> <<set[i], penv[set[i]]>>]

----------------------------------------------------------------------------
(* The env-state blob *)

\* serde_json values: [t |-> "null"], [t |-> "string", s |-> value],
\* [t |-> "array", items |-> seq], [t |-> "object", members |-> seq of
\* <<name, value>> in document order].
JsonNull == [t |-> "null"]
JsonString(v) == [t |-> "string", s |-> v]

\* Serialize for Option<String>: None is null, Some(v) the string
option_to_json(v) == IF IsSome(v) THEN JsonString(v) ELSE JsonNull

\* A writer that puts the empty string for None (mutation of to_vec)
to_vec_none_as_empty(env_state) ==
    [t |-> "object",
     members |-> <<
        <<"flake_references",
          [t |-> "array",
           items |-> [i \in DOMAIN env_state.flake_references |->
                         JsonString(env_state.flake_references[i])]]>>,
        <<"env_vars_reset",
          [t |-> "object",
           members |-> [i \in DOMAIN env_state.env_vars_reset |->
                           <<env_state.env_vars_reset[i][1],
                             IF IsSome(env_state.env_vars_reset[i][2])
                             THEN JsonString(env_state.env_vars_reset[i][2])
                             ELSE JsonString(Str(<<"">>))>>]]>> >>]

\* serde_json::to_vec(self): the struct's fields in declaration order, the
\* Vec as an array, the IndexMap as an object with its entries in map order
to_vec(env_state) ==
    [t |-> "object",
     members |-> <<
        <<"flake_references",
          [t |-> "array",
           items |-> [i \in DOMAIN env_state.flake_references |->
                         JsonString(env_state.flake_references[i])]]>>,
        <<"env_vars_reset",
          [t |-> "object",
           members |-> [i \in DOMAIN env_state.env_vars_reset |->
                           <<env_state.env_vars_reset[i][1],
                             option_to_json(env_state.env_vars_reset[i][2])>>]]>> >>]

\* Deserialize for Option<String>
option_from_json(j) == IF j.t = "null" THEN None ELSE j.s

\* serde_json::from_slice::<EnvoluntaryEnvState>: an object with both
\* fields, an array of strings and an object of strings and nulls; the map
\* is filled by inserting the members in document order.
from_slice(value) ==
    IF value.t # "object"
       \/ ~contains_key(value.members, "flake_references")
       \/ ~contains_key(value.members, "env_vars_reset")
    THEN [ok |-> FALSE]
    ELSE LET fr == get(value.members, "flake_references")
             er == get(value.members, "env_vars_reset")
         IN IF fr.t # "array" \/ er.t # "object"
            THEN [ok |-> FALSE]
            ELSE IF \/ \E i \in DOMAIN fr.items : fr.items[i].t # "string"
                    \/ \E i \in DOMAIN er.members :
                          er.members[i][2].t \notin {"string", "null"}
            THEN [ok |-> FALSE]
            ELSE [ok |-> TRUE,
                  flake_references |-> [i \in DOMAIN fr.items |-> fr.items[i].s],
                  env_vars_reset |->
                      extend(<<>>, [i \in DOMAIN er.members |->
                                       <<er.members[i][1],
                                         option_from_json(er.members[i][2])>>])]

\* ruzstd compress_to_vec and StreamingDecoder: a frame around the bytes
compress_to_vec(value) == [frame |-> value]
read_to_end(zstd_value) == zstd_value.frame

\* json -> zstd -> base64; the base64 text is a token of its own kind
encode(env_state) ==
    [kind |-> "blob", base64 |-> compress_to_vec(to_vec(env_state))]

\* A decode that falls back to the empty record on malformed input
\* (mutation of decode)
decode_or_default(base64_value) ==
    IF base64_value.kind = "blob"
    THEN from_slice(read_to_end(base64_value.base64))
    ELSE [ok |-> TRUE, flake_references |-> <<>>, env_vars_reset |-> <<>>]

\* base64 -> zstd -> json; a value that is not the base64 text of a zstd
\* frame is an error, and so is a frame whose content is not the record
decode(base64_value) ==
    IF base64_value.kind = "blob"
    THEN from_slice(read_to_end(base64_value.base64))
    ELSE [ok |-> FALSE]

----------------------------------------------------------------------------
(* Env-diff for one config *)

get_new_env_vars(penv, f) ==
    LET old_path == penv[ENV_VAR_KEY_PATH]
        seed0 == IF IsSome(old_path) THEN << <<ENV_VAR_KEY_PATH, old_path>> >> ELSE <<>>
        bash_env_vars == insert(seed0, "DIRENV_IN_ENVRC", Str(<<"1">>))
        harvested0 == remove_ignored_env_vars(get_env_vars_from_bash(f, bash_env_vars))
        new1 == IF get(harvested0, ENV_VAR_KEY_PATH) = old_path
                THEN shift_remove(harvested0, ENV_VAR_KEY_PATH)
                ELSE harvested0
        old_env_vars == remove_ignored_env_vars(get_env_vars_from_current_process(penv))
        old_env_vars_to_be_updated == get_old_env_vars_to_be_updated(old_env_vars, new1)
        new2 == IF contains_key(new1, ENV_VAR_KEY_PATH)
                THEN merge_delimited_env_var(ENV_VAR_KEY_PATH, ":", ":",
                                             old_env_vars_to_be_updated, new1)
                ELSE new1
        new3 == IF contains_key(new2, ENV_VAR_KEY_XDG_DATA_DIRS)
                THEN merge_delimited_env_var(ENV_VAR_KEY_XDG_DATA_DIRS, ":", ":",
                                             old_env_vars_to_be_updated, new2)
                ELSE new2
    IN [new_env_vars |-> new3,
        old_env_vars_to_be_updated |-> old_env_vars_to_be_updated]

\* key_order: the iteration order of new_env_vars.keys() collected into a
\* HashSet.  The result is the EnvVarsState promoted from new_env_vars
\* (every value Some).
get_export_env_vars_state(flake_reference, penv, key_order) ==
    LET u == get_new_env_vars(penv, flake_reference)
        env_vars_reset == get_env_vars_reset(u.old_env_vars_to_be_updated, key_order,
                                             ENVOLUNTARY_ENV_STATE_VAR_KEY)
        env_state == [flake_references |-> <<flake_reference>>,
                      env_vars_reset |-> env_vars_reset]
    IN insert(u.new_env_vars, ENVOLUNTARY_ENV_STATE_VAR_KEY, encode(env_state))

NewKeys(flake_reference, penv) ==
    KeysOf(get_new_env_vars(penv, flake_reference).new_env_vars)

----------------------------------------------------------------------------
(* The profile cache, as far as export observes it *)

needs_update(c, f) == c[f] # "fresh"

\* fault: the step of this call that fails ("none" when none does).
\* update() removes the cache entry first, so a failure of print-dev-env or
\* of the profile build leaves it missing; a failure while pinning the
\* inputs of a local flake comes after the rc file and the profile symlink
\* are in place.
get_cache_profile(c, f, force_update, fault) ==
    IF fault = "new"
    THEN [ok |-> FALSE, cache |-> c, update |-> FALSE]
    ELSE IF force_update \/ needs_update(c, f)
    THEN IF fault = "update"
         THEN [ok |-> FALSE, cache |-> [c EXCEPT ![f] = "missing"], update |-> TRUE]
         ELSE IF fault = "archive" /\ IsLocal(f)
         THEN [ok |-> FALSE, cache |-> [c EXCEPT ![f] = "fresh"], update |-> TRUE]
         ELSE [ok |-> TRUE, cache |-> [c EXCEPT ![f] = "fresh"], update |-> TRUE]
    ELSE [ok |-> TRUE, cache |-> c, update |-> FALSE]

----------------------------------------------------------------------------
(* print_export *)

\* Config { flake_reference, impure }, here without an impure override
Config(f) == [flake_reference |-> f, impure |-> None]
FlakeReferences(configs) == [i \in DOMAIN configs |-> configs[i].flake_reference]

NoFault == [at |-> 0, step |-> "none"]
FaultSteps == {"new", "update", "archive", "bash"}
Faults(n) ==
    {NoFault, [at |-> 0, step |-> "check_nix_version"]}
        \cup [at : 1..n, step : FaultSteps]

\* One iteration of the try_fold closure for the i-th config, from the
\* accumulated result r; key_order as in get_export_env_vars_state.
FoldStep(r, i, config, penv, force_update, fault, key_order) ==
    LET f == config.flake_reference
        step == IF fault.at = i THEN fault.step ELSE "none"
        p == get_cache_profile(r.cache, f, force_update, step)
        upd == IF p.update THEN Append(r.updated, f) ELSE r.updated
    IN IF ~p.ok
       THEN [ok |-> FALSE, acc |-> r.acc, cache |-> p.cache, updated |-> upd,
             harvested |-> r.harvested, fault |-> fault]
       ELSE IF step = "bash"
       THEN [ok |-> FALSE, acc |-> r.acc, cache |-> p.cache, updated |-> upd,
             harvested |-> Append(r.harvested, f), fault |-> fault]
       ELSE [ok |-> TRUE,
             acc |-> extend(r.acc, get_export_env_vars_state(f, penv, key_order)),
             cache |-> p.cache, updated |-> upd,
             harvested |-> Append(r.harvested, f), fault |-> NoFault]

RECURSIVE try_fold(_, _, _, _, _)
\* rcs.into_iter().try_fold(EnvVarsState::new(), ...): the possible results,
\* one per choice of HashSet iteration orders.
try_fold(configs, penv, c, force_update, fault) ==
    IF configs = <<>>
    THEN {[ok |-> TRUE, acc |-> <<>>, cache |-> c, updated |-> <<>>,
           harvested |-> <<>>, fault |-> NoFault]}
    ELSE LET n == Len(configs)
             prev == try_fold(SubSeq(configs, 1, n - 1), penv, c, force_update, fault)
         IN UNION {IF ~r.ok THEN {r}
                   ELSE {FoldStep(r, n, configs[n], penv, force_update, fault, ko) :
                            ko \in Orderings(NewKeys(configs[n].flake_reference, penv))} :
                   r \in prev}

\* What one export process did: the state-machine path it took, its
\* print_shell_export calls in order, its exit code, the cache it left, the
\* flakes whose profile it updated and whose rc it sourced, and the fault
\* that made it fail.
Outcome(p, em, ex, c, upd, harv, flt) ==
    [path |-> p, emissions |-> em, exit |-> ex, cache |-> c,
     updated |-> upd, harvested |-> harv, failure |-> flt]

NoOut == Outcome("none", <<>>, 0, <<>>, <<>>, <<>>, NoFault)

Emission(kind, env_vars_state) == [kind |-> kind, state |-> env_vars_state]

\* set_new_env_state_var callback: emissions so far are `printed`
SetNewOutcomes(p, printed, configs, penv, c, force_update, fault) ==
    {IF r.ok
     THEN Outcome(p, Append(printed, Emission("new", r.acc)), 0,
                  r.cache, r.updated, r.harvested, NoFault)
     ELSE Outcome(p, printed, 1, r.cache, r.updated, r.harvested, r.fault) :
     r \in try_fold(configs, penv, c, force_update, fault)}

\* A read that never finds the variable (mutation of get_env_state_var)
get_env_state_var_never(penv, env_state_var_key) == None

\* env::var_os(env_state_var_key)
get_env_state_var(penv, env_state_var_key) == penv[env_state_var_key]

\* An export that decodes the state variable before looking whether it is
\* set (mutation of print_export)
print_export_decode_first(penv, configs, c, force_update, fault) ==
    {Outcome("FullReset", <<>>, 1, c, <<>>, <<>>, [at |-> 0, step |-> "decode"])}

\* A probe that lets every nix pass (mutation of check_nix_version)
check_nix_version_any(fault) == TRUE

\* check_nix_version()?: whether this run's probe of the nix program passes
check_nix_version(fault) == fault.step # "check_nix_version"

\* The outcomes of one `shell export` process run with environment penv and
\* matched configs `configs`.
print_export(penv, configs, c, force_update, fault) ==
    LET env_state_var_value == get_env_state_var(penv, ENVOLUNTARY_ENV_STATE_VAR_KEY)
        has_var == IsSome(env_state_var_value)
        env_state == decode(env_state_var_value)
    IN IF ~check_nix_version(fault)
       THEN {Outcome("none", <<>>, 1, c, <<>>, <<>>, fault)}
       ELSE IF configs = <<>>
       THEN IF ~has_var
            THEN {Outcome("Done", <<>>, 0, c, <<>>, <<>>, NoFault)}
            ELSE IF ~env_state.ok
                 THEN {Outcome("FullReset", <<>>, 1, c, <<>>, <<>>,
                               [at |-> 0, step |-> "decode"])}
                 ELSE {Outcome("FullReset",
                               <<Emission("reset", env_state.env_vars_reset)>>,
                               0, c, <<>>, <<>>, NoFault)}
       ELSE IF ~has_var
       THEN SetNewOutcomes("SetNew", <<>>, configs, penv, c, force_update, fault)
       ELSE IF ~env_state.ok
       THEN {Outcome("Compare", <<>>, 1, c, <<>>, <<>>, [at |-> 0, step |-> "decode"])}
       ELSE IF FlakeReferences(configs) = env_state.flake_references
       THEN {Outcome("CompareDone", <<>>, 0, c, <<>>, <<>>, NoFault)}
       ELSE SetNewOutcomes("ResetThenSetNew",
                           <<Emission("reset", env_state.env_vars_reset)>>,
                           configs, penv, c, force_update, fault)

----------------------------------------------------------------------------
(* The emitted script and the shell that evaluates it *)

\* shells::bash::export: one line per entry, in the map's order
export(env_vars_state) ==
    [i \in DOMAIN env_vars_state |->
        IF IsSome(env_vars_state[i][2])
        THEN [cmd |-> "export", key |-> env_vars_state[i][1], value |-> env_vars_state[i][2]]
        ELSE [cmd |-> "unset", key |-> env_vars_state[i][1]]]

RECURSIVE Stdout_newest_first(_)
\* The calls' lines with the latest call first (mutation of Stdout)
Stdout_newest_first(em) ==
    IF em = <<>> THEN <<>>
    ELSE export(em[Len(em)].state) \o Stdout_newest_first(SubSeq(em, 1, Len(em) - 1))

RECURSIVE Stdout(_)
\* the lines println! wrote, one print_shell_export call after the other
Stdout(em) ==
    IF em = <<>> THEN <<>>
    ELSE Stdout(SubSeq(em, 1, Len(em) - 1)) \o export(em[Len(em)].state)

RECURSIVE Eval(_, _)
\* eval "$vars" of the bash hook: the lines take effect top to bottom
Eval(e, lines) ==
    IF lines = <<>> THEN e
    ELSE LET l == lines[1]
         IN Eval([e EXCEPT ![l.key] = IF l.cmd = "export" THEN l.value ELSE None],
                 Tail(lines))

----------------------------------------------------------------------------
(* The state machine *)

\* The matched lists match_rcs can return: config entries in file order, or
\* the --flake-references given on the command line; here every list of
\* distinct flakes.
RcLists ==
    {[i \in DOMAIN q |-> Config(q[i])] :
        q \in UNION {Orderings(S) : S \in SUBSET Flakes}}

\* Environments the user's shell can start with.
InitEnv(xdg, foo, st) ==
    [k \in EnvKeySet |->
        CASE k = "PATH" -> Str(<<"/usr/bin">>)
          [] k = "XDG_DATA_DIRS" -> xdg
          [] k = "FOO" -> foo
          [] k = "PS1" -> Str(<<"$ ">>)
          [] OTHER -> st]

InitEnvs ==
    {InitEnv(None, None, None),
     InitEnv(Str(<<"/usr/share">>), Str(<<"a">>), None),
     InitEnv(None, Str(<<"x">>), None),
     InitEnv(None, None, Str(<<"garbage">>))}

\* The command lines and faults an export is run with
Inputs(n) ==
    {<<FALSE, fault>> : fault \in Faults(n)} \cup {<<TRUE, NoFault>>}

\* No library call is recorded
NoCall == [fn |-> "none", args |-> <<>>, done |-> TRUE, result |-> <<>>]
EngineIdle == call = NoCall

\* No resolver run is recorded
NoQuery == [asked |-> FALSE, path |-> <<>>, result |-> <<>>, fresh |-> FALSE]
ResolverIdle ==
    /\ home = None
    /\ fsys = {}
    /\ configFile = None
    /\ query = NoQuery

\* No profile cache process is recorded
CacheIdle ==
    /\ disk = <<>>
    /\ clock = 0
    /\ procs = <<>>

Init ==
    /\ env \in InitEnvs
    /\ origEnv = env
    /\ rcs = <<>>
    /\ cache = [f \in Flakes |-> "missing"]
    /\ phase = "prompt"
    /\ out = NoOut
    /\ applied = [rcs |-> <<>>, exit |-> 0, clean |-> TRUE]
    /\ prompts = 0
    /\ EngineIdle
    /\ ResolverIdle
    /\ CacheIdle

\* The user changes directory: the resolver now returns another list.
Cd(configs) ==
    /\ phase = "prompt"
    /\ configs # rcs
    /\ rcs' = configs
    /\ UNCHANGED <<env, origEnv, cache, phase, out, applied, prompts, engineVars, resolverVars, cacheVars>>

\* A watched file of a local flake is modified after its profile was built.
Touch(f) ==
    /\ phase = "prompt"
    /\ IsLocal(f)
    /\ cache[f] = "fresh"
    /\ cache' = [cache EXCEPT ![f] = "stale"]
    /\ UNCHANGED <<env, origEnv, rcs, phase, out, applied, prompts, engineVars, resolverVars, cacheVars>>

\* The prompt hook runs `shell export` in a child of the shell.
\* inp: the --force-update flag and the fault of this run.
Export(inp) ==
    /\ inp \in Inputs(Len(rcs))
    /\ phase = "prompt"
    /\ prompts < MaxPrompts
    /\ out' \in print_export(env, rcs, cache, inp[1], inp[2])
    /\ cache' = out'.cache
    /\ phase' = "eval"
    /\ prompts' = prompts + 1
    /\ UNCHANGED <<env, origEnv, rcs, applied, engineVars, resolverVars, cacheVars>>

\* The hook evaluates what the export wrote to stdout.
HookEval ==
    /\ phase = "eval"
    /\ env' = Eval(env, Stdout(out.emissions))
    /\ applied' = [rcs |-> rcs, exit |-> out.exit,
                   clean |-> applied.clean /\ out.exit = 0]
    /\ out' = NoOut
    /\ phase' = "prompt"
    /\ UNCHANGED <<origEnv, rcs, cache, prompts, engineVars, resolverVars, cacheVars>>

Next ==
    \/ \E configs \in RcLists : Cd(configs)
    \/ \E f \in Flakes : Touch(f)
    \/ \E inp \in Inputs(Cardinality(Flakes)) : Export(inp)
    \/ HookEval

Spec == Init /\ [][Next]_vars

TypeOK ==
    /\ phase \in {"prompt", "eval"}
    /\ out.exit \in {0, 1}
    /\ \A k \in EnvKeySet : env[k].kind \in {"none", "str", "blob"}

----------------------------------------------------------------------------
(* The env-diff engine called as a library *)

\* The state machine at rest
MachineIdle ==
    /\ env = InitEnv(None, None, None)
    /\ origEnv = env
    /\ rcs = <<>>
    /\ cache = [f \in Flakes |-> "missing"]
    /\ phase = "prompt"
    /\ out = NoOut
    /\ applied = [rcs |-> <<>>, exit |-> 0, clean |-> TRUE]
    /\ prompts = 0

SeqsUpTo(S, n) == UNION {[1..k -> S] : k \in 0..n}

\* The IndexMaps of at most n entries with keys and values from the sets
MapsOver(keys, values, n) ==
    {m \in SeqsUpTo(keys \X values, n) :
        \A i, j \in DOMAIN m : m[i][1] = m[j][1] => i = j}

EngineKeys == {"PATH", "FOO", ENVOLUNTARY_ENV_STATE_VAR_KEY}
\* "/a:/b", "/b:/c:/b" and the empty string
EngineValues == {Str(<<"/a", "/b">>), Str(<<"/b", "/c", "/b">>), Str(<<"">>)}
EngineEnvVars == MapsOver(EngineKeys, EngineValues, MaxEntries)
EngineEnvVarsState == MapsOver(EngineKeys, EngineValues \cup {None}, MaxEntries)
EngineFlakeReferences == SeqsUpTo(Flakes, MaxFlakeRefs)
\* <<split_delimiter, join_delimiter>> as the callers and the tests pass them
Delimiters == {<<":", ":">>, <<":", " ">>, <<" ", ":">>}
\* The iteration orders of the HashSets of keys
EngineKeyOrders == UNION {Orderings(S) : S \in SUBSET EngineKeys}

\* The maps handed to merge_delimited_env_var
MergeEnvVars == MapsOver({"PATH", "FOO"}, EngineValues, MaxEntries)

\* A library call about to run: its name and arguments
Pending(fn, args) == [fn |-> fn, args |-> args, done |-> FALSE, result |-> <<>>]

InitEngine ==
    /\ MachineIdle
    /\ ResolverIdle
    /\ CacheIdle
    /\ \/ \E env_var \in {"PATH", "FOO"}, delimiters \in Delimiters,
            old_env_vars \in MergeEnvVars, new_env_vars \in MergeEnvVars :
              call = Pending("merge_delimited_env_var",
                             [env_var |-> env_var,
                              split_delimiter |-> delimiters[1],
                              join_delimiter |-> delimiters[2],
                              old_env_vars |-> old_env_vars,
                              new_env_vars |-> new_env_vars])
       \/ \E old_env_vars \in EngineEnvVars, new_env_vars \in EngineEnvVars :
              call = Pending("get_old_env_vars_to_be_updated",
                             [old_env_vars |-> old_env_vars,
                              new_env_vars |-> new_env_vars])
       \/ \E old_env_vars \in EngineEnvVars, key_order \in EngineKeyOrders :
              call = Pending("get_env_vars_reset",
                             [old_env_vars_that_were_updated |-> old_env_vars,
                              new_env_vars |-> {key_order[i] : i \in DOMAIN key_order},
                              key_order |-> key_order,
                              env_state_var_key |-> ENVOLUNTARY_ENV_STATE_VAR_KEY])
       \/ \E flake_references \in EngineFlakeReferences,
            env_vars_reset \in EngineEnvVarsState :
              call = Pending("encode",
                             [env_state |-> [flake_references |-> flake_references,
                                             env_vars_reset |-> env_vars_reset]])

\* The pending call is fn
Calls(fn) == call.fn = fn /\ ~call.done

Returns(result) ==
    /\ call' = [call EXCEPT !.done = TRUE, !.result = result]
    /\ UNCHANGED <<machineVars, resolverVars, cacheVars>>

MergeDelimitedEnvVar ==
    /\ Calls("merge_delimited_env_var")
    /\ Returns(merge_delimited_env_var(call.args.env_var, call.args.split_delimiter,
                                       call.args.join_delimiter, call.args.old_env_vars,
                                       call.args.new_env_vars))

GetOldEnvVarsToBeUpdated ==
    /\ Calls("get_old_env_vars_to_be_updated")
    /\ Returns(get_old_env_vars_to_be_updated(call.args.old_env_vars,
                                              call.args.new_env_vars))

\* key_order: the iteration order of the HashSet new_env_vars
GetEnvVarsReset ==
    /\ Calls("get_env_vars_reset")
    /\ Returns(get_env_vars_reset(call.args.old_env_vars_that_were_updated,
                                  call.args.key_order, call.args.env_state_var_key))

\* encode() of a state record, then decode() of the text it returned
EncodeDecode ==
    /\ Calls("encode")
    /\ Returns([base64_value |-> encode(call.args.env_state),
                decoded |-> decode(encode(call.args.env_state))])

NextEngine ==
    \/ MergeDelimitedEnvVar
    \/ GetOldEnvVarsToBeUpdated
    \/ GetEnvVarsReset
    \/ EncodeDecode

SpecEngine == InitEngine /\ [][NextEngine]_vars

----------------------------------------------------------------------------
(* Properties of one export *)

Exported == phase = "eval"
PastProbe == out.failure.step # "check_nix_version"
NoRcs == rcs = <<>>
HasVar == IsSome(env[ENVOLUNTARY_ENV_STATE_VAR_KEY])
OldState == decode(env[ENVOLUNTARY_ENV_STATE_VAR_KEY])
Lines == Stdout(out.emissions)
EmissionKinds == {out.emissions[i].kind : i \in DOMAIN out.emissions}
\* the shell's environment once the pending stdout is evaluated
EnvAfter == Eval(env, Lines)
SetNewDone == Exported /\ out.path \in {"SetNew", "ResetThenSetNew"} /\ out.exit = 0
\* the composed EnvVarsState a successful set-new printed
NewState == out.emissions[Len(out.emissions)].state

\* C1: every export past config loading and the nix probe takes exactly the
\* path selected by (matched list empty?, state variable present?):
\* NoRcs x NoVar -> Done, NoRcs x HasVar -> full reset, Rcs x NoVar ->
\* set-new, Rcs x HasVar -> compare (Done without output when the lists are
\* equal, else reset then set-new); no reset is emitted when the state
\* variable was absent.
C1_FourPaths ==
    (Exported /\ PastProbe) =>
        /\ (NoRcs /\ ~HasVar) => (out.path = "Done" /\ out.emissions = <<>>)
        /\ (NoRcs /\ HasVar) => (out.path = "FullReset" /\ "new" \notin EmissionKinds)
        /\ (~NoRcs /\ ~HasVar) => out.path = "SetNew"
        /\ (~NoRcs /\ HasVar) =>
              /\ out.path \in {"Compare", "CompareDone", "ResetThenSetNew"}
              /\ (OldState.ok /\ OldState.flake_references = FlakeReferences(rcs))
                    => (out.path = "CompareDone" /\ out.emissions = <<>> /\ out.exit = 0)
              /\ (OldState.ok /\ OldState.flake_references # FlakeReferences(rcs))
                    => out.path = "ResetThenSetNew"
        /\ ~HasVar => "reset" \notin EmissionKinds

C1_Witness ==
    Exported /\ ~NoRcs /\ HasVar /\ out.path = "ResetThenSetNew" /\ out.exit = 0

\* C2: after the shell applied the script of a successful export for a
\* non-empty matched list, the next export with the same list emits nothing,
\* updates no profile, harvests nothing and exits 0.
C2_SteadyState ==
    [][(/\ phase = "prompt" /\ phase' = "eval"
        /\ rcs # <<>> /\ applied.rcs = rcs /\ applied.exit = 0
        /\ out'.failure.step # "check_nix_version")
       => (/\ out'.emissions = <<>> /\ out'.exit = 0
           /\ out'.updated = <<>> /\ out'.harvested = <<>>)]_vars

\* C3: for one matched config, applying the emitted exports to the
\* pre-export environment and then the reset stored in the emitted blob
\* gives every variable the export set the value it had before, and leaves
\* ENVOLUNTARY_ENV_STATE unset.
C3_ResetNeutral ==
    (Exported /\ out.path = "SetNew" /\ out.exit = 0 /\ Len(rcs) = 1) =>
        LET st == decode(EnvAfter[ENVOLUNTARY_ENV_STATE_VAR_KEY])
            final == Eval(EnvAfter, export(st.env_vars_reset))
        IN /\ st.ok
           /\ \A k \in KeysOf(NewState) \ {ENVOLUNTARY_ENV_STATE_VAR_KEY} :
                 final[k] = env[k]
           /\ final[ENVOLUNTARY_ENV_STATE_VAR_KEY] = None

\* C4: when every export succeeded and every script was applied, after a
\* prompt in a directory that matches nothing each variable has the value
\* it had before the first export and ENVOLUNTARY_ENV_STATE is unset.
C4_Restored ==
    (phase = "prompt" /\ prompts > 0 /\ applied.clean /\ applied.rcs = <<>>) =>
        /\ \A k \in EnvKeySet : env[k] = origEnv[k]
        /\ env[ENVOLUNTARY_ENV_STATE_VAR_KEY] = None

\* C5: an export that fails has written nothing to stdout.
C5_AllOrNothing ==
    (Exported /\ out.exit # 0) => Lines = <<>>

\* lines first..first+Len(reset)-1 are the reset, entry by entry in stored
\* order: an export of the recorded old value, or an unset
ResetLinesAt(lines, first, reset) ==
    /\ Len(lines) >= first - 1 + Len(reset)
    /\ \A i \in DOMAIN reset :
          /\ lines[first - 1 + i].key = reset[i][1]
          /\ IF IsSome(reset[i][2])
             THEN /\ lines[first - 1 + i].cmd = "export"
                  /\ lines[first - 1 + i].value = reset[i][2]
             ELSE lines[first - 1 + i].cmd = "unset"
    /\ \E i \in DOMAIN reset :
          lines[first - 1 + i] = [cmd |-> "unset", key |-> ENVOLUNTARY_ENV_STATE_VAR_KEY]

\* C6: Rcs x HasVar with a differing list: stdout is every reset line of the
\* old blob (the unset of ENVOLUNTARY_ENV_STATE among them) followed by the
\* new exports (the export of the new blob among them), so after evaluation
\* ENVOLUNTARY_ENV_STATE holds the new blob.
C6_ResetsFirst ==
    (Exported /\ out.path = "ResetThenSetNew" /\ out.exit = 0) =>
        LET n == Len(OldState.env_vars_reset)
        IN /\ ResetLinesAt(Lines, 1, OldState.env_vars_reset)
           /\ Len(Lines) > n
           /\ \A i \in (n + 1)..Len(Lines) : Lines[i].cmd = "export"
           /\ \E i \in (n + 1)..Len(Lines) :
                 /\ Lines[i].key = ENVOLUNTARY_ENV_STATE_VAR_KEY
                 /\ Lines[i].value.kind = "blob"
                 /\ EnvAfter[ENVOLUNTARY_ENV_STATE_VAR_KEY] = Lines[i].value

C6_Witness ==
    /\ Exported /\ out.path = "ResetThenSetNew" /\ out.exit = 0
    /\ \E i \in DOMAIN OldState.env_vars_reset : IsSome(OldState.env_vars_reset[i][2])

\* C7: after a set-new for configs c1..cn the exported blob decodes to the
\* flake_references list [c1, ..., cn].
C7_BlobListsAll ==
    SetNewDone =>
        LET st == decode(EnvAfter[ENVOLUNTARY_ENV_STATE_VAR_KEY])
        IN st.ok /\ st.flake_references = FlakeReferences(rcs)

\* C8: with two or more matched configs the reset stored in the exported
\* blob has an entry for every variable the composed export sets.
C8_ResetCoversAll ==
    (SetNewDone /\ Len(rcs) >= 2) =>
        LET st == decode(EnvAfter[ENVOLUNTARY_ENV_STATE_VAR_KEY])
        IN st.ok /\ KeysOf(NewState) \subseteq KeysOf(st.env_vars_reset)

\* C9: NoRcs x HasVar: stdout is exactly the reset decoded from the current
\* blob, one line per entry in stored order, with the unset of
\* ENVOLUNTARY_ENV_STATE; no profile is updated, nothing is harvested and
\* nothing new is exported.
C9_FullReset ==
    (Exported /\ PastProbe /\ NoRcs /\ HasVar /\ OldState.ok) =>
        /\ out.exit = 0
        /\ Len(Lines) = Len(OldState.env_vars_reset)
        /\ ResetLinesAt(Lines, 1, OldState.env_vars_reset)
        /\ out.updated = <<>> /\ out.harvested = <<>>
        /\ "new" \notin EmissionKinds

C9_Witness ==
    /\ Exported /\ PastProbe /\ NoRcs /\ HasVar /\ OldState.ok
    /\ \E i \in DOMAIN OldState.env_vars_reset : IsSome(OldState.env_vars_reset[i][2])
    /\ \E i \in DOMAIN OldState.env_vars_reset : ~IsSome(OldState.env_vars_reset[i][2])
    /\ \E f \in Flakes : cache[f] # "fresh"

\* C10: Rcs x NoVar: stdout exports every harvested non-ignored variable of
\* every matched flake, has exactly one export of ENVOLUNTARY_ENV_STATE, as
\* its last line, and has no unset line.
C10_SetNewShape ==
    (Exported /\ out.path = "SetNew" /\ out.exit = 0) =>
        /\ \A i \in DOMAIN Lines : Lines[i].cmd = "export"
        /\ \A i \in DOMAIN rcs : \A k \in NewKeys(rcs[i].flake_reference, env) :
              \E j \in DOMAIN Lines : Lines[j].key = k
        /\ Cardinality({i \in DOMAIN Lines :
                           Lines[i].key = ENVOLUNTARY_ENV_STATE_VAR_KEY}) = 1
        /\ Lines[Len(Lines)].key = ENVOLUNTARY_ENV_STATE_VAR_KEY

\* C11: NoRcs x NoVar: an export that reaches the state machine with an
\* empty matched list and ENVOLUNTARY_ENV_STATE absent writes nothing to
\* stdout, exits 0, and leaves the profile cache as it was (no profile is
\* updated, no rc is sourced).
C11_NoRcsNoVar ==
    [][(/\ phase = "prompt" /\ phase' = "eval"
        /\ NoRcs /\ ~HasVar
        /\ out'.failure.step # "check_nix_version")
       => (/\ Stdout(out'.emissions) = <<>>
           /\ out'.exit = 0
           /\ cache' = cache
           /\ out'.updated = <<>> /\ out'.harvested = <<>>)]_vars

C11_Witness ==
    /\ Exported /\ PastProbe /\ NoRcs /\ ~HasVar /\ out.path = "Done"
    /\ \E f \in Flakes : cache[f] = "stale"

\* ENVOLUNTARY_ENV_STATE holds a string that is not the text encode() writes
Garbled == HasVar /\ env[ENVOLUNTARY_ENV_STATE_VAR_KEY].kind # "blob"

ExportsState(lines) ==
    \E i \in DOMAIN lines :
        lines[i].cmd = "export" /\ lines[i].key = ENVOLUNTARY_ENV_STATE_VAR_KEY

\* C13: when the shell applies the script of a successful export,
\* ENVOLUNTARY_ENV_STATE is set afterwards iff the matched list of that
\* prompt is non-empty; and when the previous applied export succeeded for
\* another non-empty matched list, the script exports a new blob.
C13_Lifecycle ==
    [][(phase = "eval" /\ phase' = "prompt" /\ out.exit = 0)
       => (/\ IsSome(env'[ENVOLUNTARY_ENV_STATE_VAR_KEY]) <=> rcs # <<>>
           /\ (/\ applied.exit = 0 /\ applied.rcs # <<>>
               /\ rcs # <<>> /\ rcs # applied.rcs)
                 => ExportsState(Lines))]_vars

----------------------------------------------------------------------------
(* Properties of the env-diff engine *)

Returned(fn) == call.fn = fn /\ call.done
DistinctKeys(m) == \A i, j \in DOMAIN m : m[i][1] = m[j][1] => i = j

\* C14: decode(encode(x)) succeeds and gives back x: the flake references
\* in their order, the reset entries in their order, an empty-string value
\* as the empty string and an absent marker as absent.
C14_RoundTrip ==
    Returned("encode") =>
        /\ call.result.decoded.ok
        /\ call.result.decoded.flake_references = call.args.env_state.flake_references
        /\ call.result.decoded.env_vars_reset = call.args.env_state.env_vars_reset

C14_Witness ==
    /\ Returned("encode")
    /\ call.args.env_state.flake_references = <<FlakeB, FlakeA>>
    /\ call.args.env_state.env_vars_reset =
          << <<"PATH", None>>, <<"FOO", Str(<<"">>)>> >>
    /\ call.result.base64_value.kind = "blob"

\* the index of the first occurrence of x in s
FirstIndex(s, x) ==
    CHOOSE i \in DOMAIN s : s[i] = x /\ \A j \in DOMAIN s : s[j] = x => i <= j

\* the elements of s, once each, ordered by first occurrence
FirstOccurrences(s) ==
    CHOOSE p \in Orderings({s[i] : i \in DOMAIN s}) :
        \A i, j \in DOMAIN p : i < j => FirstIndex(s, p[i]) < FirstIndex(s, p[j])

\* C15: merge_delimited_env_var: with the variable in both old and new, its
\* new value is the parts of new followed by the parts of old, each once at
\* its first occurrence, joined with the join delimiter (so a part of new
\* precedes every part found only in old), and nothing else of new changes;
\* with the variable missing in old or in new, new is returned unchanged.
C15_Merge ==
    Returned("merge_delimited_env_var") =>
        LET a == call.args
            k == a.env_var
        IN IF contains_key(a.old_env_vars, k) /\ contains_key(a.new_env_vars, k)
           THEN LET new_parts == split(get(a.new_env_vars, k), a.split_delimiter)
                    old_parts == split(get(a.old_env_vars, k), a.split_delimiter)
                    merged == FirstOccurrences(new_parts \o old_parts)
                IN /\ get(call.result, k) = join(merged, a.join_delimiter)
                   /\ \A i, j \in DOMAIN merged :
                         (/\ \E n \in DOMAIN new_parts : new_parts[n] = merged[i]
                          /\ \A n \in DOMAIN new_parts : new_parts[n] # merged[j])
                            => i < j
                   /\ KeySeq(call.result) = KeySeq(a.new_env_vars)
                   /\ \A o \in KeysOf(a.new_env_vars) \ {k} :
                         get(call.result, o) = get(a.new_env_vars, o)
           ELSE call.result = a.new_env_vars

C15_Witness ==
    /\ Returned("merge_delimited_env_var")
    /\ call.args.split_delimiter = ":" /\ call.args.join_delimiter = " "
    /\ get(call.args.new_env_vars, call.args.env_var) = Str(<<"/a", "/b">>)
    /\ get(call.args.old_env_vars, call.args.env_var) = Str(<<"/b", "/c", "/b">>)
    /\ get(call.result, call.args.env_var) = Str(<<"/a /b /c">>)

\* C16: get_old_env_vars_to_be_updated(old, new) is exactly the entries
\* (k, old[k]) with k a key of both maps and old[k] # new[k], in old's
\* order.
C16_OldToBeUpdated ==
    Returned("get_old_env_vars_to_be_updated") =>
        LET old == call.args.old_env_vars
            new == call.args.new_env_vars
            r == call.result
        IN /\ DistinctKeys(r)
           /\ KeysOf(r) = {k \in KeysOf(old) \cap KeysOf(new) : get(old, k) # get(new, k)}
           /\ \A i \in DOMAIN r : r[i][2] = get(old, r[i][1])
           /\ \A i, j \in DOMAIN r :
                 i < j => IndexOf(old, r[i][1]) < IndexOf(old, r[j][1])

C16_Witness ==
    /\ Returned("get_old_env_vars_to_be_updated")
    /\ Len(call.args.old_env_vars) = 2
    /\ KeysOf(call.args.old_env_vars) = KeysOf(call.args.new_env_vars)
    /\ Len(call.result) = 1
    /\ call.result[1] = call.args.old_env_vars[2]

\* C17: get_env_vars_reset(old_updated, new_keys, state_key) has exactly
\* the keys new_keys plus state_key; a key of new_keys other than state_key
\* maps to its value in old_updated, absent when it has none; state_key
\* maps to absent whatever old_updated holds for it.
C17_Reset ==
    Returned("get_env_vars_reset") =>
        LET old == call.args.old_env_vars_that_were_updated
            state_key == call.args.env_state_var_key
            r == call.result
        IN /\ DistinctKeys(r)
           /\ KeysOf(r) = call.args.new_env_vars \cup {state_key}
           /\ \A k \in call.args.new_env_vars \ {state_key} : get(r, k) = get(old, k)
           /\ contains_key(r, state_key) /\ get(r, state_key) = None

C17_Witness ==
    /\ Returned("get_env_vars_reset")
    /\ call.args.env_state_var_key \in call.args.new_env_vars
    /\ IsSome(get(call.args.old_env_vars_that_were_updated, call.args.env_state_var_key))
    /\ \E k \in KeysOf(call.args.old_env_vars_that_were_updated) :
          k \notin call.args.new_env_vars
    /\ \E k \in call.args.new_env_vars :
          ~contains_key(call.args.old_env_vars_that_were_updated, k)

----------------------------------------------------------------------------
(* The directory-to-flake resolver (cli/src/config.rs) *)

\* Here a string is the sequence of its characters: "/h/p" is
\* <<"/", "h", "/", "p">>.  Option<T> is None or Some(v).
Some(v) == [kind |-> "some", v |-> v]

starts_with(string, prefix) ==
    Len(prefix) <= Len(string) /\ SubSeq(string, 1, Len(prefix)) = prefix

\* A regex is a literal with optional ^ and $ anchors.
Regex(anchored_start, literal, anchored_end) ==
    [anchored_start |-> anchored_start, literal |-> literal,
     anchored_end |-> anchored_end]

\* Regex::is_match: the literal occurs somewhere, at the ends the anchors name
is_match(pattern, string) ==
    \E i \in 1..(Len(string) + 1) :
        /\ i + Len(pattern.literal) - 1 <= Len(string)
        /\ SubSeq(string, i, i + Len(pattern.literal) - 1) = pattern.literal
        /\ pattern.anchored_start => i = 1
        /\ pattern.anchored_end => i + Len(pattern.literal) - 1 = Len(string)

\* home_dir: the result of get_home_dir().ok().  replacen(home, "~", 1)
\* replaces the occurrence at the start, the one starts_with found.
replace_home_with_tilde(path_string, home_dir) ==
    IF IsSome(home_dir) /\ starts_with(path_string, home_dir.v)
    THEN Some(<<"~">> \o SubSeq(path_string, Len(home_dir.v) + 1, Len(path_string)))
    ELSE None

path_is_match_with_or_without_home_tilde(path_string, path_string_with_tilde, pattern) ==
    \/ is_match(pattern, path_string)
    \/ IsSome(path_string_with_tilde) /\ is_match(pattern, path_string_with_tilde.v)

\* Position of the last "/" of a path string, 0 when it has none
LastSlash(path) ==
    IF \E i \in DOMAIN path : path[i] = "/"
    THEN CHOOSE i \in DOMAIN path :
            path[i] = "/" /\ \A j \in DOMAIN path : path[j] = "/" => j <= i
    ELSE 0

\* Path::parent of a normalised path: None for "/" and for ""
parent(path) ==
    IF path = <<>> \/ path = <<"/">> THEN None
    ELSE IF LastSlash(path) = 0 THEN Some(<<>>)
    ELSE IF LastSlash(path) = 1 THEN Some(<<"/">>)
    ELSE Some(SubSeq(path, 1, LastSlash(path) - 1))

RECURSIVE ancestors_of_parent(_)
\* The walk without its starting directory (mutation of ancestors)
ancestors_of_parent(path) ==
    IF IsSome(parent(path))
    THEN <<parent(path).v>> \o ancestors_of_parent(parent(path).v)
    ELSE <<>>

RECURSIVE ancestors(_)
\* Path::ancestors: the path itself, then its parent, and so on
ancestors(path) ==
    IF IsSome(parent(path)) THEN <<path>> \o ancestors(parent(path).v) ELSE <<path>>

\* PathBuf::join of a directory and an entry name
JoinPath(dir, name) ==
    IF dir = <<"/">> THEN dir \o name ELSE dir \o <<"/">> \o name

\* fs::read_dir(dir).ok(), with the failing entries filtered out: the paths
\* of the entries of a directory that exists and can be read, None
\* otherwise.  A relative path is read against a working directory that
\* holds nothing of that name.
read_dir(fs, dir) ==
    IF \E d \in fs : d.path = dir /\ d.readable
    THEN Some({JoinPath(dir, name) :
                 name \in (CHOOSE d \in fs : d.path = dir).children})
    ELSE None

\* The entries of one directory the inner find_map can return: read_dir
\* yields them in no particular order, so any matching one can be first
AdjacentIn(fs, home_dir, dir, pattern_adjacent) ==
    IF IsSome(read_dir(fs, dir))
    THEN {dir_entry_path \in read_dir(fs, dir).v :
             path_is_match_with_or_without_home_tilde(
                 dir_entry_path,
                 replace_home_with_tilde(dir_entry_path, home_dir),
                 pattern_adjacent)}
    ELSE {}

RECURSIVE FindMap(_, _, _, _)
\* find_map over the ancestors: the finds of the first one that has any
FindMap(fs, home_dir, dirs, pattern_adjacent) ==
    IF dirs = <<>> THEN {}
    ELSE IF AdjacentIn(fs, home_dir, dirs[1], pattern_adjacent) # {}
    THEN AdjacentIn(fs, home_dir, dirs[1], pattern_adjacent)
    ELSE FindMap(fs, home_dir, Tail(dirs), pattern_adjacent)

\* The paths the function can return as Some(path); empty when it returns
\* None
find_adjacent_dir_entry_walking_up_file_hierarchy(fs, home_dir, start_dir, pattern_adjacent) ==
    FindMap(fs, home_dir, ancestors(start_dir), pattern_adjacent)

ConfigEntry(pattern, pattern_adjacent, flake_reference) ==
    [pattern |-> pattern, pattern_adjacent |-> pattern_adjacent,
     config |-> Config(flake_reference)]

\* The closure matching_entries filters with
EntryMatches(fs, home_dir, path, entry) ==
    LET pattern_match ==
            path_is_match_with_or_without_home_tilde(
                path, replace_home_with_tilde(path, home_dir), entry.pattern)
    IN IF IsSome(entry.pattern_adjacent) /\ pattern_match
       THEN find_adjacent_dir_entry_walking_up_file_hierarchy(
                fs, home_dir, path, entry.pattern_adjacent.v) # {}
       ELSE pattern_match

\* regex::Regex::new on a pattern text: a text with an unclosed group does
\* not compile.  A compiled Regex is kept as its text (Regex::as_str).
Regex_new(re) ==
    IF \E i \in DOMAIN re.literal : re.literal[i] = "("
    THEN [ok |-> FALSE]
    ELSE [ok |-> TRUE, regex |-> re]

\* The keys of the TOML table of an entry: the toml serializer leaves a
\* None field out, and #[serde(flatten)] puts the fields of config beside
\* the patterns.
EntryKeys(entry) ==
    {"pattern", "flake_reference"}
        \cup (IF IsSome(entry.pattern_adjacent) THEN {"pattern_adjacent"} ELSE {})
        \cup (IF IsSome(entry.config.impure) THEN {"impure"} ELSE {})

\* Serialize for ConfigEntry into a TOML table: a function from the keys
\* that are present to their values
serialize_entry(entry) ==
    [k \in EntryKeys(entry) |->
        CASE k = "pattern" -> entry.pattern
          [] k = "pattern_adjacent" -> entry.pattern_adjacent.v
          [] k = "flake_reference" -> entry.config.flake_reference
          [] k = "impure" -> entry.config.impure.v]

\* Deserialize for ConfigEntry from a TOML table: an absent optional key is
\* None
deserialize_entry(table) ==
    [pattern |-> table["pattern"],
     pattern_adjacent |-> IF "pattern_adjacent" \in DOMAIN table
                          THEN Some(table["pattern_adjacent"]) ELSE None,
     config |-> [flake_reference |-> table["flake_reference"],
                 impure |-> IF "impure" \in DOMAIN table
                            THEN Some(table["impure"]) ELSE None]]

\* toml::to_string_pretty(&self): the document, an array of tables under
\* `entries` when the field is Some
to_string_pretty(envoluntary_config) ==
    IF IsSome(envoluntary_config.entries)
    THEN [entries |-> Some([i \in DOMAIN envoluntary_config.entries.v |->
                              serialize_entry(envoluntary_config.entries.v[i])])]
    ELSE [entries |-> None]

\* Config::builder().add_source(File).build()?.try_deserialize() of a
\* well-formed document
try_deserialize(document) ==
    IF IsSome(document.entries)
    THEN [entries |-> Some([i \in DOMAIN document.entries.v |->
                              deserialize_entry(document.entries.v[i])])]
    ELSE [entries |-> None]

\* EnvoluntaryConfig::load: the default config when the file is missing
load(config_file) ==
    IF IsSome(config_file) THEN try_deserialize(config_file.v) ELSE [entries |-> None]

\* EnvoluntaryConfig::save: the file now holds the document
save(envoluntary_config) == Some(to_string_pretty(envoluntary_config))

\* A resolver that stops at the first match (mutation of matching_entries)
matching_entries_first(envoluntary_config, fs, home_dir, path) ==
    LET entries == IF IsSome(envoluntary_config.entries)
                   THEN envoluntary_config.entries.v ELSE <<>>
        hits == SelectSeq(entries, LAMBDA entry : EntryMatches(fs, home_dir, path, entry))
    IN IF hits = <<>> THEN <<>> ELSE <<hits[1]>>

matching_entries(envoluntary_config, fs, home_dir, path) ==
    LET entries == IF IsSome(envoluntary_config.entries)
                   THEN envoluntary_config.entries.v ELSE <<>>
    IN SelectSeq(entries, LAMBDA entry : EntryMatches(fs, home_dir, path, entry))

----------------------------------------------------------------------------
(* The resolver's world: $HOME, a directory tree, a config file *)

RootDir == <<"/">>
HomeDir == <<"/", "h">>                          \* /h
ProjectDir == <<"/", "h", "/", "p">>             \* /h/p
SubDir == <<"/", "h", "/", "p", "/", "s">>       \* /h/p/s
OtherDir == <<"/", "e">>                         \* /e
TildeProjectDir == <<"~", "/", "p">>             \* ~/p
TildeSubDir == <<"~", "/", "p", "/", "s">>       \* ~/p/s

NoDir == <<>>
Marker == <<"m">>                                \* a file named m

\* The tree /, /h, /h/p, /h/p/s, /e with the marker file in marker_dir
Tree(marker_dir) ==
    {[path |-> dir[1], readable |-> TRUE,
      children |-> dir[2] \cup (IF dir[1] = marker_dir THEN {Marker} ELSE {})] :
        dir \in {<<RootDir, {<<"h">>, <<"e">>}>>,
                 <<HomeDir, {<<"p">>}>>,
                 <<ProjectDir, {<<"s">>}>>,
                 <<SubDir, {}>>,
                 <<OtherDir, {}>>}}

Trees == {Tree(dir) : dir \in {NoDir, RootDir, HomeDir, ProjectDir, SubDir}}

\* pattern "^/h/p"
EntryAbsolute == ConfigEntry(Regex(TRUE, ProjectDir, FALSE), None, FlakeA)
\* pattern "^~/p"
EntryTilde == ConfigEntry(Regex(TRUE, TildeProjectDir, FALSE), None, FlakeB)
\* pattern "s$", pattern_adjacent "/m$"
EntryAdjacent ==
    ConfigEntry(Regex(FALSE, <<"s">>, TRUE), Some(Regex(FALSE, <<"/", "m">>, TRUE)), FlakeB)
\* pattern "^~/", pattern_adjacent "^~/p/m$"
EntryTildeAdjacent ==
    ConfigEntry(Regex(TRUE, <<"~", "/">>, FALSE),
                Some(Regex(TRUE, <<"~", "/", "p", "/", "m">>, TRUE)), FlakeA)

EntryPool == {EntryAbsolute, EntryTilde, EntryAdjacent, EntryTildeAdjacent}

\* The config file: missing, without an entries table, or with entries
ConfigFiles ==
    {None, save([entries |-> None])}
        \cup {save([entries |-> Some(entries)]) :
                 entries \in SeqsUpTo(EntryPool, MaxConfigEntries)}

\* The paths the resolver is asked about
QueryPaths ==
    {RootDir, HomeDir, ProjectDir, SubDir, OtherDir, TildeProjectDir, TildeSubDir}

InitResolver ==
    /\ MachineIdle
    /\ EngineIdle
    /\ CacheIdle
    /\ home \in {None, Some(HomeDir)}
    /\ fsys \in Trees
    /\ configFile \in ConfigFiles
    /\ query = NoQuery

\* `config print-matching-entries <path>`, or the match_rcs callback of an
\* export run in <path>
MatchingEntries(path) ==
    /\ query' = [asked |-> TRUE, path |-> path,
                 result |-> matching_entries(load(configFile), fsys, home, path),
                 fresh |-> TRUE]
    /\ UNCHANGED <<machineVars, engineVars, cacheVars, home, fsys, configFile>>

\* The permissions of a directory change: unreadable, or readable again
Chmod(dir) ==
    /\ fsys' = {IF d.path = dir THEN [d EXCEPT !.readable = ~d.readable] ELSE d :
                   d \in fsys}
    /\ query' = [query EXCEPT !.fresh = FALSE]
    /\ UNCHANGED <<machineVars, engineVars, cacheVars, home, configFile>>

NextResolver ==
    \/ \E path \in QueryPaths : MatchingEntries(path)
    \/ \E dir \in {ProjectDir, SubDir} : Chmod(dir)

SpecResolver == InitResolver /\ [][NextResolver]_vars

----------------------------------------------------------------------------
(* Properties of the resolver *)

\* The last query was answered from the present config and filesystem
Answered == query.asked /\ query.fresh
Entries == IF IsSome(load(configFile).entries) THEN load(configFile).entries.v ELSE <<>>
InResult(entry) == \E k \in DOMAIN query.result : query.result[k] = entry

\* C18: matching_entries returns exactly the entries whose match predicate
\* holds for the path, in config-file order, each once per occurrence in the
\* file; and asking again for the same path with the same config and
\* filesystem returns the same list.
C18_MatchingEntries ==
    /\ [](Answered =>
            LET hits == {i \in DOMAIN Entries :
                            EntryMatches(fsys, home, query.path, Entries[i])}
            IN /\ Len(query.result) = Cardinality(hits)
               /\ \E f \in [DOMAIN query.result -> hits] :
                     /\ \A k, l \in DOMAIN query.result : k < l => f[k] < f[l]
                     /\ \A k \in DOMAIN query.result : query.result[k] = Entries[f[k]])
    /\ [][(Answered /\ query'.asked /\ query'.fresh /\ query'.path = query.path)
          => query'.result = query.result]_vars

C18_Witness ==
    /\ Answered
    /\ Len(Entries) = 2 /\ Entries[1] # Entries[2]
    /\ query.result = Entries
    /\ IsSome(Entries[1].pattern_adjacent)

\* the path is the home directory or lies below it
UnderHome(path) ==
    /\ IsSome(home)
    /\ starts_with(path, home.v)
    /\ Len(path) > Len(home.v) => path[Len(home.v) + 1] = "/"

\* the same path with the home prefix written as ~
TildeForm(path) == <<"~">> \o SubSeq(path, Len(home.v) + 1, Len(path))

\* C19: a path under the home directory and the same path written with ~
\* match the same entries.
C19_TildeEquivalence ==
    (Answered /\ UnderHome(query.path)) =>
        LET with_tilde == matching_entries(load(configFile), fsys, home,
                                           TildeForm(query.path))
        IN {query.result[k] : k \in DOMAIN query.result}
              = {with_tilde[k] : k \in DOMAIN with_tilde}

\* a is d or an ancestor of d, for absolute normalised paths
IsAncestorOrSelf(a, d) == a = d \/ a = RootDir \/ starts_with(d, a \o <<"/">>)

\* the raw or the tilde form of the string matches
MatchesEitherForm(pattern, string) ==
    \/ is_match(pattern, string)
    \/ /\ IsSome(home) /\ starts_with(string, home.v)
       /\ is_match(pattern, <<"~">> \o SubSeq(string, Len(home.v) + 1, Len(string)))

\* C20: for an absolute directory D, an entry with pattern_adjacent is
\* matched iff its pattern matches D (raw or tilde form) and D itself or an
\* ancestor of D up to the root is a readable directory with an immediate
\* child whose path (raw or tilde form) matches pattern_adjacent.
C20_Adjacent ==
    (Answered /\ query.path[1] = "/") =>
        \A i \in DOMAIN Entries :
            IsSome(Entries[i].pattern_adjacent) =>
                (InResult(Entries[i]) <=>
                    /\ MatchesEitherForm(Entries[i].pattern, query.path)
                    /\ \E d \in fsys :
                          /\ d.readable
                          /\ IsAncestorOrSelf(d.path, query.path)
                          /\ \E name \in d.children :
                                MatchesEitherForm(Entries[i].pattern_adjacent.v,
                                                  JoinPath(d.path, name)))

\* D and its parent cannot be read and the marker is in the root
C20_Witness ==
    /\ Answered /\ query.path = SubDir
    /\ \A d \in fsys : d.path \in {SubDir, ProjectDir} => ~d.readable
    /\ \E d \in fsys : d.path = RootDir /\ Marker \in d.children
    /\ InResult(EntryAdjacent)

----------------------------------------------------------------------------
(* The config commands (cli/src/config.rs) *)

JsonBool(b) == [t |-> "bool", b |-> b]

\* serde_json::to_string(&entry): one object on one line, every field
\* present, None as null, the fields of config flattened in
to_string(entry) ==
    [t |-> "object",
     members |-> <<
        <<"pattern", JsonString(entry.pattern)>>,
        <<"pattern_adjacent",
          IF IsSome(entry.pattern_adjacent)
          THEN JsonString(entry.pattern_adjacent.v) ELSE JsonNull>>,
        <<"flake_reference", JsonString(entry.config.flake_reference)>>,
        <<"impure",
          IF IsSome(entry.config.impure)
          THEN JsonBool(entry.config.impure.v) ELSE JsonNull>> >>]

\* An add_entry that puts the new entry first (mutation of add_entry)
add_entry_first(config_file, pattern, flake_reference, pattern_adjacent, impure) ==
    LET entry == [pattern |-> pattern, pattern_adjacent |-> pattern_adjacent,
                  config |-> [flake_reference |-> flake_reference, impure |-> impure]]
        envoluntary_config == load(config_file)
    IN IF ~Regex_new(pattern).ok
       THEN [ok |-> FALSE, config_file |-> config_file]
       ELSE [ok |-> TRUE,
             config_file |->
                 save([entries |->
                          Some(IF IsSome(envoluntary_config.entries)
                               THEN <<entry>> \o envoluntary_config.entries.v
                               ELSE <<entry>>)])]

\* add_entry: the result and the config file it leaves.  The arguments are
\* pattern texts; Regex::new(&pattern)? returns before the file is read,
\* Regex::new(&s).ok() turns a pattern_adjacent that does not compile
\* into None.
add_entry(config_file, pattern, flake_reference, pattern_adjacent, impure) ==
    LET entry == [pattern |-> Regex_new(pattern).regex,
                  pattern_adjacent |->
                      IF IsSome(pattern_adjacent) /\ Regex_new(pattern_adjacent.v).ok
                      THEN Some(Regex_new(pattern_adjacent.v).regex)
                      ELSE None,
                  config |-> [flake_reference |-> flake_reference, impure |-> impure]]
        envoluntary_config == load(config_file)
    IN IF ~Regex_new(pattern).ok
       THEN [ok |-> FALSE, config_file |-> config_file]
       ELSE [ok |-> TRUE,
             config_file |->
                 save([entries |->
                          Some(IF IsSome(envoluntary_config.entries)
                               THEN Append(envoluntary_config.entries.v, entry)
                               ELSE <<entry>>)])]

\* print_matching_entries: the lines written to stdout, one println! per
\* matching entry
print_matching_entries(config_file, fs, home_dir, path) ==
    LET entries == matching_entries(load(config_file), fs, home_dir, path)
    IN [ok |-> TRUE, stdout |-> [i \in DOMAIN entries |-> to_string(entries[i])]]

\* Pattern texts given on the command line: "^/h/p", ".*" (here the empty
\* literal, which matches every path) and "(" which does not compile;
\* "/m$" and "(m" for --pattern-adjacent
PatternTexts == {Regex(TRUE, ProjectDir, FALSE), Regex(FALSE, <<>>, FALSE),
                 Regex(FALSE, <<"(">>, FALSE)}
PatternAdjacentTexts ==
    {None, Some(Regex(FALSE, <<"/", "m">>, TRUE)), Some(Regex(FALSE, <<"(", "m">>, FALSE))}

AddEntryArgs ==
    [pattern : PatternTexts, flake_reference : Flakes,
     pattern_adjacent : PatternAdjacentTexts, impure : {None, Some(TRUE)}]

\* The number of [[entries]] tables of a config file
TablesOf(config_file) ==
    IF IsSome(config_file) /\ IsSome(config_file.v.entries)
    THEN config_file.v.entries.v ELSE <<>>

\* The config file before the first command: missing, empty (as the test
\* writes it), or written by hand with one entry
InitConfig ==
    /\ MachineIdle
    /\ CacheIdle
    /\ call = NoCall
    /\ home = Some(HomeDir)
    /\ fsys \in {Tree(NoDir), Tree(ProjectDir)}
    /\ query = NoQuery
    /\ configFile \in {None, save([entries |-> None]),
                       save([entries |-> Some(<<EntryAdjacent>>)])}

\* `config add-entry <pattern> <flake_reference> [--pattern-adjacent R]
\* [--impure B]`
AddEntry(args) ==
    /\ Len(TablesOf(configFile)) < MaxConfigEntries
    /\ LET r == add_entry(configFile, args.pattern, args.flake_reference,
                          args.pattern_adjacent, args.impure)
       IN /\ configFile' = r.config_file
          /\ call' = [fn |-> "add_entry", args |-> args, done |-> TRUE,
                      result |-> [ok |-> r.ok, before |-> configFile]]
    /\ UNCHANGED <<machineVars, cacheVars, home, fsys, query>>

\* `config print-matching-entries <path>`
PrintMatchingEntries(path) ==
    /\ LET r == print_matching_entries(configFile, fsys, home, path)
       IN call' = [fn |-> "print_matching_entries", args |-> [path |-> path],
                   done |-> TRUE, result |-> r]
    /\ UNCHANGED <<machineVars, cacheVars, home, fsys, configFile, query>>

NextConfig ==
    \/ \E args \in AddEntryArgs : AddEntry(args)
    \/ \E path \in {ProjectDir, SubDir, OtherDir} : PrintMatchingEntries(path)

SpecConfig == InitConfig /\ [][NextConfig]_vars

----------------------------------------------------------------------------
(* Properties of the config commands *)

Compiles(text) == Regex_new(text).ok
AddEntryRan == call.fn = "add_entry"

\* C21: add-entry validates both regexes: when the pattern or the
\* pattern_adjacent argument is not a valid regex, add-entry fails and the
\* config file is left as it was.
C21_AddEntryValidates ==
    (/\ AddEntryRan
     /\ \/ ~Compiles(call.args.pattern)
        \/ /\ IsSome(call.args.pattern_adjacent)
           /\ ~Compiles(call.args.pattern_adjacent.v))
        => /\ ~call.result.ok
           /\ configFile = call.result.before

PrintRan == call.fn = "print_matching_entries"

\* The JSON array of the entries that match the path asked about
MatchingArray ==
    LET entries == matching_entries(load(configFile), fsys, home, call.args.path)
    IN [t |-> "array", items |-> [i \in DOMAIN entries |-> to_string(entries[i])]]

\* C23: print-matching-entries prints one line, the JSON array of the
\* matching entries in file order with absent optional fields as null; when
\* nothing matches the line is `[]`.
C23_PrintsArray ==
    PrintRan => /\ Len(call.result.stdout) = 1
                /\ call.result.stdout[1] = MatchingArray

----------------------------------------------------------------------------
(* The profile cache on disk (nix-dev-env/src/nix_profile_cache.rs) *)

MaxClock == 2   \* the latest time stamp
MaxRuns == 3    \* get_cache_profile runs per behaviour

\* The digest of a byte sequence stands for the bytes it was fed:
\* update(a) then update(b) is the digest of a followed by b
Sha1(bytes) == [sha1 |-> bytes]

\* SystemTime::UNIX_EPOCH, before every time stamp of the clock
UNIX_EPOCH == 0

\* get_cache_dir()
CacheDir == <<"cache">>

\* A cache shared by all flake references (mutation of get_cache_sub_dir)
get_cache_sub_dir_shared(cache_dir, flake_reference) == cache_dir

\* cache_dir.join(hex(Sha1::digest(flake_reference)))
get_cache_sub_dir(cache_dir, flake_reference) ==
    cache_dir \o <<Sha1(<<flake_reference>>)>>

\* The name of an entry of a cache directory: "flake-inputs",
\* "flake-inputs/<input>", "flake-profile-<hash>", "flake-profile-<hash>.rc",
\* "flake-tmp-profile.<pid>"; the same shape names a store path
Name(base, tag, ext) == [base |-> base, tag |-> tag, ext |-> ext]
NoName == Name("", <<>>, "")
\* The store path of a dev-env profile is a regular file, that of a flake
\* input a directory
StoreEnv == Name("/nix/store/", <<"env">>, "")
StoreSource == Name("/nix/store/", <<"source">>, "")

File(name, content, mtime) ==
    [name |-> name, kind |-> "file", content |-> content, mtime |-> mtime,
     target |-> NoName]
Symlink(name, target) ==
    [name |-> name, kind |-> "symlink", content |-> <<>>, mtime |-> UNIX_EPOCH,
     target |-> target]
Directory(name) ==
    [name |-> name, kind |-> "dir", content |-> <<>>, mtime |-> UNIX_EPOCH,
     target |-> NoName]

NoDirectory == [exists |-> FALSE, entries |-> {}]
Has(dir, name) == dir.exists /\ \E e \in dir.entries : e.name = name
Lookup(dir, name) == CHOOSE e \in dir.entries : e.name = name
Without(dir, name) == {e \in dir.entries : e.name # name}

\* What a symlink target is: a store path, or an entry of the directory
TargetKind(dir, target) ==
    IF target = StoreEnv THEN "file"
    ELSE IF target = StoreSource THEN "dir"
    ELSE IF Has(dir, target) THEN Lookup(dir, target).kind
    ELSE "missing"

\* Path::is_file: follows symbolic links
is_file(dir, name) ==
    /\ Has(dir, name)
    /\ \/ Lookup(dir, name).kind = "file"
       \/ /\ Lookup(dir, name).kind = "symlink"
          /\ TargetKind(dir, Lookup(dir, name).target) = "file"

\* fs::read_dir(cache_dir): the entries directly in the directory
CacheEntries(dir) == {e.name : e \in {x \in dir.entries : x.name.base # "flake-inputs/"}}

\* FlakeReference::parse: flake_dir is Some for a path flake
flake_dir(flake_reference) ==
    IF IsLocal(flake_reference) THEN Some(flake_reference) ELSE None

WatchedNames == <<"flake.nix", "flake.lock", "devshell.toml">>

\* Path::exists and fs::read of a file of the flake directory
exists(files, f) == f \in DOMAIN files /\ files[f].present

RECURSIVE ReadAll(_, _)
\* acc.update(fs::read(f)?) over the files, in order
ReadAll(files, filenames) ==
    IF filenames = <<>> THEN <<>>
    ELSE files[filenames[1]].content \o ReadAll(files, Tail(filenames))

\* A hash_files that fails on a file that does not exist (mutation of
\* hash_files)
hash_files_all_exist(files, filenames) ==
    IF filenames = <<>> \/ \E i \in DOMAIN filenames : ~exists(files, filenames[i])
    THEN [ok |-> FALSE, error |-> "No files found to hash"]
    ELSE [ok |-> TRUE, hash |-> Sha1(ReadAll(files, filenames))]

hash_files(files, filenames) ==
    LET existing == SelectSeq(filenames, LAMBDA f : exists(files, f))
    IN IF existing = <<>>
       THEN [ok |-> FALSE, error |-> "No files found to hash"]
       ELSE [ok |-> TRUE, hash |-> Sha1(ReadAll(files, existing))]

hash_flake_reference(flake_reference) ==
    [ok |-> TRUE, hash |-> Sha1(<<flake_reference>>)]

\* No NixProfileCache was made
NoProfileCache ==
    [ok |-> FALSE, cache_dir |-> <<>>, flake_inputs_dir |-> NoName,
     flake_reference |-> "", files_to_watch |-> <<>>,
     profile_symlink |-> NoName, profile_rc_file |-> NoName]

\* NixProfileCache::new
NixProfileCache_new(files, cache_dir, flake_reference) ==
    LET files_to_watch ==
            IF IsSome(flake_dir(flake_reference))
            THEN [i \in DOMAIN WatchedNames |->
                     <<flake_dir(flake_reference).v, WatchedNames[i]>>]
            ELSE <<>>
        hash == IF IsSome(flake_dir(flake_reference))
                THEN hash_files(files, files_to_watch)
                ELSE hash_flake_reference(flake_reference)
    IN IF ~hash.ok THEN NoProfileCache
       ELSE [ok |-> TRUE, cache_dir |-> cache_dir,
             flake_inputs_dir |-> Name("flake-inputs", <<>>, ""),
             flake_reference |-> flake_reference,
             files_to_watch |-> files_to_watch,
             profile_symlink |-> Name("flake-profile-", hash.hash.sha1, ""),
             profile_rc_file |-> Name("flake-profile-", hash.hash.sha1, "rc")]

\* fs::metadata(file).and_then(modified).unwrap_or(UNIX_EPOCH)
Modified(files, f) == IF exists(files, f) THEN files[f].mtime ELSE UNIX_EPOCH

\* NixProfileCache::needs_update
NixProfileCache_needs_update(d, self) ==
    LET dir == d.dirs[self.cache_dir]
    IN IF is_file(dir, self.profile_rc_file) /\ is_file(dir, self.profile_symlink)
       THEN \E i \in DOMAIN self.files_to_watch :
               Modified(d.files, self.files_to_watch[i])
                   > Lookup(dir, self.profile_rc_file).mtime
       ELSE TRUE

\* A clean-up that keeps what the directory holds (mutation of
\* clean_old_gcroots)
clean_old_gcroots_keep(dir, flake_inputs_dir) ==
    [exists |-> TRUE,
     entries |-> Without(dir, flake_inputs_dir) \cup {Directory(flake_inputs_dir)}]

\* clean_old_gcroots: remove_dir_all (a missing directory is tolerated),
\* then create_dir_all(flake_inputs_dir)
clean_old_gcroots(dir, flake_inputs_dir) ==
    [exists |-> TRUE, entries |-> {Directory(flake_inputs_dir)}]

\* What `nix print-dev-env` prints for a flake: it depends on the flake
\* reference and, for a local flake, on its flake.nix
PrintDevEnvStdout(files, flake_reference) ==
    <<flake_reference>>
        \o (IF exists(files, <<flake_reference, "flake.nix">>)
            THEN files[<<flake_reference, "flake.nix">>].content ELSE <<>>)

\* fs::File::create(path)?.write_all(content)
write_all(dir, name, content, now) ==
    [dir EXCEPT !.entries = Without(dir, name) \cup {File(name, content, now)}]

\* add_gcroot: `nix build --out-link symlink store_path`.  The link the
\* nix program leaves points at what it was given (the nix of the
\* repository's test: ln -sf) or at the store path behind it.
add_gcroot(dir, store_path, symlink, out_link) ==
    [dir EXCEPT !.entries =
        Without(dir, symlink)
            \cup {Symlink(symlink,
                          IF out_link = "store" /\ store_path.base # "/nix/store/"
                          THEN StoreEnv ELSE store_path)}]

\* fs::remove_file
remove_file(dir, name) == [dir EXCEPT !.entries = Without(dir, name)]

\* A step of update(): a file operation, or an invocation of nix with the
\* paths and the flake reference on its command line
Step(op, path, installable, flake_reference) ==
    [op |-> op, path |-> path, installable |-> installable,
     flake_reference |-> flake_reference]

\* nix print-dev-env --profile <profile> <flake_reference>
nix_print_dev_env(profile, flake_reference) ==
    Step("nix print-dev-env", profile, NoName, flake_reference)

\* A build with the two paths in each other's place (mutation of nix_build)
nix_build_swapped(symlink, store_path) == Step("nix build", store_path, symlink, "")

\* nix build --out-link <symlink> <store_path>
nix_build(symlink, store_path) == Step("nix build", symlink, store_path, "")

\* nix flake archive --json --no-write-lock-file <flake_reference>
nix_flake_archive(flake_reference) ==
    Step("nix flake archive", NoName, NoName, flake_reference)

\* get_flake_input_paths: the store paths `nix flake archive --json` lists,
\* without the "/nix/store/" prefix
get_flake_input_paths(flake_reference) == <<StoreSource.tag>>

----------------------------------------------------------------------------
(* get_cache_profile, one process per flake reference *)

WatchedPaths == {<<f, WatchedNames[i]>> : f \in {g \in Flakes : IsLocal(g)},
                                          i \in DOMAIN WatchedNames}
CacheDirs == {get_cache_sub_dir(CacheDir, f) : f \in Flakes}
FileContents == {<<"x">>, <<"y">>}
NoFile == [present |-> FALSE, content |-> <<>>, mtime |-> UNIX_EPOCH]

\* The process running get_cache_profile for a flake reference: where it
\* is, its NixProfileCache, its --force-update flag, what needs_update
\* returned, the stdout of print-dev-env, the steps update() has taken (as
\* the nix of the repository's test logs its invocations); when it is at
\* rest (pc "idle"), the result of its last run: exit, and whether update()
\* ran to its end
Proc(pc, self, force_update, need, updated, stdout, exit, runs, log) ==
    [pc |-> pc, self |-> self, force_update |-> force_update, need |-> need,
     updated |-> updated, stdout |-> stdout, exit |-> exit, runs |-> runs,
     log |-> log]

\* The nix program on PATH: what its out-links point at
OutLinks == {"installable", "store"}

InitCache ==
    /\ MachineIdle
    /\ EngineIdle
    /\ ResolverIdle
    /\ clock = 1
    /\ \E nix \in {NoFile, [present |-> TRUE, content |-> <<"x">>, mtime |-> 1]},
          out_link \in OutLinks :
          disk = [dirs |-> [d \in CacheDirs |-> NoDirectory],
                  files |-> [f \in WatchedPaths |->
                                IF f[2] = "flake.nix" THEN nix ELSE NoFile],
                  out_link |-> out_link]
    /\ procs = [f \in Flakes |->
                   Proc("idle", NoProfileCache, FALSE, FALSE, FALSE, <<>>, "none", 0, <<>>)]

CacheFrame == UNCHANGED <<machineVars, engineVars, resolverVars>>

\* The process ends: its locals are gone, the result of the run stays
Exit(proc, exit, updated) ==
    Proc("idle", proc.self, FALSE, FALSE, updated, proc.stdout, exit, proc.runs,
         proc.log)
Dir(f) == disk.dirs[procs[f].self.cache_dir]
SetDir(f, dir) == disk' = [disk EXCEPT !.dirs[procs[f].self.cache_dir] = dir]
Pid(f) == IF f = FlakeA THEN "101" ELSE "102"
tmp_profile(f) == Name("flake-tmp-profile.", <<Pid(f)>>, "")

\* get_cache_profile starts: NixProfileCache::new(get_cache_sub_dir(..), ..)?
New(f, force_update) ==
    /\ procs[f].pc = "idle"
    /\ procs[FlakeA].runs + procs[FlakeB].runs < MaxRuns
    /\ LET self == NixProfileCache_new(disk.files, get_cache_sub_dir(CacheDir, f), f)
       IN procs' = [procs EXCEPT ![f] =
                       Proc(IF self.ok THEN "needs_update" ELSE "idle", self, force_update,
                            FALSE, FALSE, <<>>, IF self.ok THEN "none" ELSE "err",
                            procs[f].runs + 1, <<>>)]
    /\ UNCHANGED <<disk, clock>>
    /\ CacheFrame

\* if force_update || cache_profile.needs_update()? { update }
NeedsUpdate(f) ==
    /\ procs[f].pc = "needs_update"
    /\ LET need == NixProfileCache_needs_update(disk, procs[f].self)
       IN procs' = [procs EXCEPT ![f] =
                       IF procs[f].force_update \/ need
                       THEN [procs[f] EXCEPT !.need = need, !.pc = "clean_old_gcroots"]
                       ELSE Exit(procs[f], "ok", FALSE)]
    /\ UNCHANGED <<disk, clock>>
    /\ CacheFrame

\* update(), first statement
CleanOldGcroots(f) ==
    /\ procs[f].pc = "clean_old_gcroots"
    /\ SetDir(f, clean_old_gcroots(Dir(f), procs[f].self.flake_inputs_dir))
    /\ procs' = [procs EXCEPT ![f].pc = "print_dev_env",
                              ![f].log = <<Step("clean_old_gcroots", NoName, NoName, "")>>]
    /\ UNCHANGED clock
    /\ CacheFrame

\* nix print-dev-env --profile tmp_profile, then the rc file is written
\* from its stdout.  result: "ok"; "nix", the program exits with 1;
\* "create", File::create fails; "write", write_all fails after the file
\* was created.  A failure ends the run.
PrintDevEnv(f, result) ==
    /\ procs[f].pc = "print_dev_env"
    /\ LET stdout == PrintDevEnvStdout(disk.files, procs[f].self.flake_reference)
           profile == write_all(Dir(f), tmp_profile(f), stdout, clock)
           invoked == Append(procs[f].log,
                             nix_print_dev_env(tmp_profile(f),
                                               procs[f].self.flake_reference))
           failed == [Exit(procs[f], "err", FALSE) EXCEPT !.log = invoked]
       IN CASE result = "ok" ->
                 /\ SetDir(f, write_all(profile, procs[f].self.profile_rc_file,
                                        stdout, clock))
                 /\ procs' = [procs EXCEPT
                                 ![f].pc = "add_gcroot", ![f].stdout = stdout,
                                 ![f].log = Append(invoked,
                                                   Step("write_all",
                                                        procs[f].self.profile_rc_file,
                                                        NoName, ""))]
            [] result = "nix" ->
                 /\ procs' = [procs EXCEPT ![f] = failed]
                 /\ UNCHANGED disk
            [] result = "create" ->
                 /\ procs' = [procs EXCEPT ![f] = failed]
                 /\ SetDir(f, profile)
            [] result = "write" ->
                 /\ procs' = [procs EXCEPT ![f] = failed]
                 /\ SetDir(f, write_all(profile, procs[f].self.profile_rc_file,
                                        <<>>, clock))
    /\ UNCHANGED clock
    /\ CacheFrame

\* add_gcroot(&tmp_profile, &self.profile_symlink)?; a nix that exits
\* with 1 leaves no link and ends the run
AddGcroot(f, code) ==
    /\ procs[f].pc = "add_gcroot"
    /\ LET invoked == Append(procs[f].log,
                             nix_build(procs[f].self.profile_symlink, tmp_profile(f)))
       IN IF code = 0
          THEN /\ SetDir(f, add_gcroot(Dir(f), tmp_profile(f),
                                       procs[f].self.profile_symlink, disk.out_link))
               /\ procs' = [procs EXCEPT ![f].pc = "remove_file", ![f].log = invoked]
          ELSE /\ procs' = [procs EXCEPT
                               ![f] = [Exit(procs[f], "err", FALSE) EXCEPT !.log = invoked]]
               /\ UNCHANGED disk
    /\ UNCHANGED clock
    /\ CacheFrame

\* fs::remove_file(&tmp_profile)?; update() ends here for a flake that is
\* not local.  A remove_file that fails leaves the file and ends the run.
RemoveFile(f, removed) ==
    /\ procs[f].pc = "remove_file"
    /\ LET done == Append(procs[f].log, Step("remove_file", tmp_profile(f), NoName, ""))
       IN IF removed
          THEN /\ SetDir(f, remove_file(Dir(f), tmp_profile(f)))
               /\ procs' = [procs EXCEPT ![f] =
                               IF IsSome(flake_dir(procs[f].self.flake_reference))
                               THEN [procs[f] EXCEPT !.pc = "flake_inputs", !.log = done]
                               ELSE [Exit(procs[f], "ok", TRUE) EXCEPT !.log = done]]
          ELSE /\ procs' = [procs EXCEPT
                               ![f] = [Exit(procs[f], "err", FALSE) EXCEPT !.log = done]]
               /\ UNCHANGED disk
    /\ UNCHANGED clock
    /\ CacheFrame

RECURSIVE PinInputs(_, _, _)
\* for input in get_flake_input_paths(..)? { add_gcroot(store_path, symlink_path)? }
PinInputs(dir, inputs, out_link) ==
    IF inputs = <<>> THEN dir
    ELSE PinInputs(add_gcroot(dir, Name("/nix/store/", inputs[1], ""),
                              Name("flake-inputs/", inputs[1], ""), out_link),
                   Tail(inputs), out_link)

\* The flake inputs of a local flake are pinned.  result: "ok"; "archive",
\* nix flake archive fails; "build", the nix build of the first input fails.
FlakeInputs(f, result) ==
    /\ procs[f].pc = "flake_inputs"
    /\ LET inputs == get_flake_input_paths(procs[f].self.flake_reference)
           archived == Append(procs[f].log,
                              nix_flake_archive(procs[f].self.flake_reference))
           builds == [i \in DOMAIN inputs |->
                         nix_build(Name("flake-inputs/", inputs[i], ""),
                                   Name("/nix/store/", inputs[i], ""))]
       IN CASE result = "ok" ->
                 /\ SetDir(f, PinInputs(Dir(f), inputs, disk.out_link))
                 /\ procs' = [procs EXCEPT
                                 ![f] = [Exit(procs[f], "ok", TRUE)
                                            EXCEPT !.log = archived \o builds]]
            [] result = "archive" ->
                 /\ procs' = [procs EXCEPT
                                 ![f] = [Exit(procs[f], "err", FALSE)
                                            EXCEPT !.log = archived]]
                 /\ UNCHANGED disk
            [] result = "build" ->
                 /\ procs' = [procs EXCEPT
                                 ![f] = [Exit(procs[f], "err", FALSE)
                                            EXCEPT !.log = Append(archived, builds[1])]]
                 /\ UNCHANGED disk
    /\ UNCHANGED clock
    /\ CacheFrame

\* Time passes
Tick ==
    /\ clock < MaxClock
    /\ clock' = clock + 1
    /\ UNCHANGED <<disk, procs>>
    /\ CacheFrame

\* The user writes a watched file of a local flake
WriteWatched(path, content) ==
    /\ disk.files[path] # [present |-> TRUE, content |-> content, mtime |-> clock]
    /\ disk' = [disk EXCEPT !.files[path] =
                   [present |-> TRUE, content |-> content, mtime |-> clock]]
    /\ UNCHANGED <<clock, procs>>
    /\ CacheFrame

NextCache ==
    \/ \E f \in Flakes, force_update \in BOOLEAN : New(f, force_update)
    \/ \E f \in Flakes : NeedsUpdate(f)
    \/ \E f \in Flakes : CleanOldGcroots(f)
    \/ \E f \in Flakes, result \in {"ok", "nix", "create", "write"} : PrintDevEnv(f, result)
    \/ \E f \in Flakes, code \in {0, 1} : AddGcroot(f, code)
    \/ \E f \in Flakes, removed \in BOOLEAN : RemoveFile(f, removed)
    \/ \E f \in Flakes, result \in {"ok", "archive", "build"} : FlakeInputs(f, result)
    \/ Tick
    \/ \E content \in FileContents : WriteWatched(<<FlakeB, "flake.nix">>, content)

SpecCache == InitCache /\ [][NextCache]_vars

----------------------------------------------------------------------------
(* Properties of the profile cache *)

CacheDirOf(d, self) == d.dirs[self.cache_dir]
RcMissing(d, self) == ~is_file(CacheDirOf(d, self), self.profile_rc_file)
SymlinkMissing(d, self) == ~Has(CacheDirOf(d, self), self.profile_symlink)
\* Some watched file that exists is newer than the rc file
WatchedNewer(d, self) ==
    \E i \in DOMAIN self.files_to_watch :
        /\ exists(d.files, self.files_to_watch[i])
        /\ d.files[self.files_to_watch[i]].mtime
              > Lookup(CacheDirOf(d, self), self.profile_rc_file).mtime

\* C24: needs_update returns true iff the rc file is missing, or the
\* profile symlink is missing, or some watched file is strictly newer than
\* the rc file; a symlink that exists counts whatever it points to.
C24_NeedsUpdate ==
    [][\A f \in Flakes :
          (procs[f].pc = "needs_update" /\ procs'[f] # procs[f]) =>
              (procs'[f].need <=> (\/ RcMissing(disk, procs[f].self)
                                   \/ SymlinkMissing(disk, procs[f].self)
                                   \/ WatchedNewer(disk, procs[f].self)))]_vars

\* update() of the last run ran to its end
Updated(f) == procs[f].pc = "idle" /\ procs[f].exit = "ok" /\ procs[f].updated

\* C25: needs_update is true on a fresh cache; after a successful update
\* it is false for as long as no watched file is newer than the rc file,
\* and true once one is.
C25_CacheHit ==
    \A f \in Flakes :
        /\ (procs[f].self.ok /\ ~CacheDirOf(disk, procs[f].self).exists)
              => NixProfileCache_needs_update(disk, procs[f].self)
        /\ Updated(f) =>
              (NixProfileCache_needs_update(disk, procs[f].self)
                  <=> WatchedNewer(disk, procs[f].self))

\* C26: after a successful update of a local flake the cache directory
\* holds exactly flake-inputs, flake-profile-<hash> and
\* flake-profile-<hash>.rc: no temporary profile, nothing of an earlier
\* hash; and the rc file holds what print-dev-env printed.
C26_ThreeEntries ==
    \A f \in Flakes :
        (Updated(f) /\ IsLocal(f)) =>
            LET self == procs[f].self
                dir == CacheDirOf(disk, self)
            IN /\ CacheEntries(dir) =
                     {self.flake_inputs_dir, self.profile_symlink, self.profile_rc_file}
               /\ Lookup(dir, self.flake_inputs_dir).kind = "dir"
               /\ ~Has(dir, tmp_profile(f))
               /\ Lookup(dir, self.profile_rc_file).kind = "file"
               /\ Lookup(dir, self.profile_rc_file).content = procs[f].stdout

\* the second update of the local flake, after its flake.nix changed
C26_Witness ==
    /\ Updated(FlakeB)
    /\ procs[FlakeB].runs = 2
    /\ procs[FlakeB].self.profile_symlink.tag = <<"y">>
    /\ procs[FlakeB].stdout = <<FlakeB, "y">>

\* What needs_update answers to a process that starts now for a flake
NeedOf(d, f) ==
    LET self == NixProfileCache_new(d.files, get_cache_sub_dir(CacheDir, f), f)
    IN [ok |-> self.ok, need |-> self.ok /\ NixProfileCache_needs_update(d, self)]

\* C30: a step of the process of one flake reference leaves the cache
\* directory of every other one (rc file, profile symlink, flake-inputs)
\* and its needs_update result as they were.
C30_Independent ==
    [][\A a, b \in Flakes :
          (a # b /\ procs'[a] # procs[a]) =>
              /\ disk'.dirs[get_cache_sub_dir(CacheDir, b)]
                    = disk.dirs[get_cache_sub_dir(CacheDir, b)]
              /\ NeedOf(disk', b) = NeedOf(disk, b)]_vars

\* one flake is being updated while the cache of the other is up to date
C30_Witness ==
    \E a, b \in Flakes :
        /\ a # b
        /\ procs[a].pc = "add_gcroot"
        /\ NeedOf(disk, b) = [ok |-> TRUE, need |-> FALSE]
        /\ procs[b].pc = "needs_update"

----------------------------------------------------------------------------
(* Functions of one export called once: hash_files, the nix version probe
   (nix-dev-env/src/nix_version_check.rs) and the evaluation mode of each
   get_cache_profile call of print_export (cli/src/shell.rs) *)

MaxHashFiles == 3   \* paths handed to hash_files

\* A string of the version probe is the sequence of its characters
Digits == {"0", "1", "2", "3", "4", "5", "6", "7", "8", "9"}

DigitValue(c) ==
    CASE c = "0" -> 0 [] c = "1" -> 1 [] c = "2" -> 2 [] c = "3" -> 3
      [] c = "4" -> 4 [] c = "5" -> 5 [] c = "6" -> 6 [] c = "7" -> 7
      [] c = "8" -> 8 [] c = "9" -> 9

RECURSIVE DigitRun(_, _)
\* [0-9]+ at position i: the length of the longest run of digits there
DigitRun(s, i) ==
    IF i <= Len(s) /\ s[i] \in Digits THEN 1 + DigitRun(s, i + 1) ELSE 0

IsDot(s, i) == i <= Len(s) /\ s[i] = "."

\* ([0-9]+\.[0-9]+\.[0-9]+) matched at position i
SemverAt(s, i) ==
    LET a == DigitRun(s, i)
        b == DigitRun(s, i + a + 1)
        c == DigitRun(s, i + a + b + 2)
    IN IF a > 0 /\ IsDot(s, i + a) /\ b > 0 /\ IsDot(s, i + a + b + 1) /\ c > 0
       THEN Some([major |-> SubSeq(s, i, i + a - 1),
                  minor |-> SubSeq(s, i + a + 1, i + a + b),
                  patch |-> SubSeq(s, i + a + b + 2, i + a + b + c + 1)])
       ELSE None

\* SEMVER_RE.find: the leftmost match
SEMVER_RE_find(s) ==
    LET starts == {i \in 1..Len(s) : IsSome(SemverAt(s, i))}
    IN IF starts = {} THEN None
       ELSE SemverAt(s, CHOOSE i \in starts : \A j \in starts : i <= j)

RECURSIVE ParseNumber(_)
\* The number a run of decimal digits writes
ParseNumber(digits) ==
    IF digits = <<>> THEN 0
    ELSE 10 * ParseNumber(SubSeq(digits, 1, Len(digits) - 1))
         + DigitValue(digits[Len(digits)])

LeadingZero(digits) == Len(digits) > 1 /\ digits[1] = "0"

\* semver::Version::parse of a major.minor.patch text: a numeric
\* identifier with a leading zero is an error (the numerals of the model
\* are short of the 64 bits whose overflow is the other error)
Version_parse(token) ==
    IF LeadingZero(token.major) \/ LeadingZero(token.minor) \/ LeadingZero(token.patch)
    THEN [ok |-> FALSE, error |-> "invalid leading zero"]
    ELSE [ok |-> TRUE, error |-> "",
          major |-> ParseNumber(token.major), minor |-> ParseNumber(token.minor),
          patch |-> ParseNumber(token.patch)]

\* >= 2.10.0
REQUIRED_NIX_VERSION == [major |-> 2, minor |-> 10, patch |-> 0]

\* A comparison that looks at the major and the patch number only
\* (mutation of matches)
matches_major_patch(req, version) ==
    IF version.major # req.major THEN version.major > req.major
    ELSE version.patch >= req.patch

\* VersionReq::matches for one GreaterEq comparator without pre-release
matches(req, version) ==
    IF version.major # req.major THEN version.major > req.major
    ELSE IF version.minor # req.minor THEN version.minor > req.minor
    ELSE version.patch >= req.patch

\* nix_program: the program could not be run, or ran and exited with a
\* code and its stdout
nix_program(output) ==
    IF output.kind = "io_error" THEN [ok |-> FALSE, error |-> "io error"]
    ELSE IF output.code # 0
    THEN [ok |-> FALSE, error |-> "failed with error: process exited unsuccessfully"]
    ELSE [ok |-> TRUE, error |-> "", stdout |-> output.stdout]

check_nix_program_version(output) ==
    LET stdout_content == nix_program(output) IN
    IF ~stdout_content.ok THEN [ok |-> FALSE, error |-> stdout_content.error]
    ELSE IF stdout_content.stdout = <<>>
    THEN [ok |-> FALSE, error |-> "nix --version failed to execute."]
    ELSE LET nix_version_match == SEMVER_RE_find(stdout_content.stdout) IN
    IF ~IsSome(nix_version_match)
    THEN [ok |-> FALSE, error |-> "SemVer from nix --version could not be found."]
    ELSE LET nix_version == Version_parse(nix_version_match.v) IN
    IF ~nix_version.ok THEN [ok |-> FALSE, error |-> nix_version.error]
    ELSE IF matches(REQUIRED_NIX_VERSION, nix_version)
    THEN [ok |-> TRUE, error |-> ""]
    ELSE [ok |-> FALSE, error |-> "nix version too old for flakes."]

\* Option::or with the operands the other way round (mutation of Option_or)
Option_or_other(a, b) == IF IsSome(b) THEN b ELSE a

\* Option::or
Option_or(a, b) == IF IsSome(a) THEN a ELSE b

\* get_cache_profile: if impure == Some(true) Impure else Pure
EvaluationMode(impure) == IF impure = Some(TRUE) THEN "Impure" ELSE "Pure"

\* A callback that always asks the config file (mutation of config_values)
config_values_from_file(args, matching) == matching

\* print_export: the configs match_rcs is given
config_values(args, matching) ==
    IF IsSome(args.flake_references)
    THEN [i \in DOMAIN args.flake_references.v |->
             [flake_reference |-> args.flake_references.v[i], impure |-> args.impure]]
    ELSE matching

\* print_export: the get_cache_profile call made for each config, with
\* the evaluation mode it selects
get_cache_profiles(args, configs) ==
    [i \in DOMAIN configs |->
        [flake_reference |-> configs[i].flake_reference,
         evaluation_mode |->
             EvaluationMode(Option_or(args.impure, configs[i].impure))]]

\* The text of an emitter is the sequence of its lines (the lines joined
\* with "\n"; no line is empty, so the empty string is the empty sequence),
\* a line the sequence of its pieces: a literal, or a string quoted for
\* the shell by shell_quote (one word without a raw line break)
Lit(text) == [t |-> "lit", s |-> Str(<<text>>)]
Quoted(shell, value) == [t |-> shell, s |-> value]

SEMICOLON_DELIMITED_ENV_VARS == {ENV_VAR_KEY_PATH, ENV_VAR_KEY_XDG_DATA_DIRS}

\* shells::bash::export_var / unset_var, shells::zsh likewise with Zsh
sh_export_var(shell, key, value) ==
    <<Lit("export"), Lit(" "), Quoted(shell, Str(<<key>>)), Lit("="),
      Quoted(shell, value), Lit(";")>>
sh_unset_var(shell, key) ==
    <<Lit("unset"), Lit(" "), Quoted(shell, Str(<<key>>)), Lit(";")>>

RECURSIVE JoinPieces(_, _)
\* bstr::join(separator, pieces)
JoinPieces(pieces, separator) ==
    IF Len(pieces) = 1 THEN <<pieces[1]>>
    ELSE JoinPieces(SubSeq(pieces, 1, Len(pieces) - 1), separator)
            \o <<separator, pieces[Len(pieces)]>>

\* A fish export that never splits the value (mutation of fish_export_var)
fish_export_var_whole(key, value, semicolon_delimited_env_vars) ==
    <<Lit("set -x -g"), Lit(" "), Quoted("Fish", Str(<<key>>)), Lit(" "),
      Quoted("Fish", value), Lit(";")>>

\* shells::fish::export_var
fish_export_var(key, value, semicolon_delimited_env_vars) ==
    LET value_pieces ==
            IF IsSome(semicolon_delimited_env_vars)
               /\ key \in semicolon_delimited_env_vars.v
            THEN LET value_parts == split(value, ":")
                 IN JoinPieces([i \in DOMAIN value_parts |->
                                   Quoted("Fish", Str(value_parts[i]))], Lit(" "))
            ELSE <<Quoted("Fish", value)>>
    IN <<Lit("set -x -g"), Lit(" "), Quoted("Fish", Str(<<key>>)), Lit(" ")>>
          \o value_pieces \o <<Lit(";")>>

fish_unset_var(key) ==
    <<Lit("set -e -g"), Lit(" "), Quoted("Fish", Str(<<key>>)), Lit(";")>>

\* shells::{bash, zsh, fish, json}::export
shells_export(shell, env_vars_state, semicolon_delimited_env_vars) ==
    CASE shell \in {"Bash", "Zsh"} ->
            [i \in DOMAIN env_vars_state |->
                IF IsSome(env_vars_state[i][2])
                THEN sh_export_var(shell, env_vars_state[i][1], env_vars_state[i][2])
                ELSE sh_unset_var(shell, env_vars_state[i][1])]
      [] shell = "Fish" ->
            [i \in DOMAIN env_vars_state |->
                IF IsSome(env_vars_state[i][2])
                THEN fish_export_var(env_vars_state[i][1], env_vars_state[i][2],
                                     semicolon_delimited_env_vars)
                ELSE fish_unset_var(env_vars_state[i][1])]
      [] shell = "Json" ->
            [t |-> "object",
             members |-> [i \in DOMAIN env_vars_state |->
                             <<env_vars_state[i][1],
                               option_to_json(env_vars_state[i][2])>>]]

Shells == {"Bash", "Zsh", "Fish", "Json"}

\* The inputs

HashFilesSystems ==
    {[f \in WatchedPaths |->
         IF f \in present
         THEN [present |-> TRUE,
               content |-> IF f[2] = "flake.nix" THEN <<"x">>
                           ELSE IF f[2] = "flake.lock" THEN <<"y">> ELSE <<"x", "y">>,
               mtime |-> 1]
         ELSE NoFile] : present \in SUBSET WatchedPaths}

VersionPrefixes ==
    {<<>>, <<"n", "i", "x", " ">>, <<"1", ".", "0", ".", "0", " ">>, <<"2", ".", "1", "0", " ">>}
MajorTexts == {<<"0">>, <<"2">>, <<"3">>, <<"0", "2">>}
MinorTexts == {<<"0">>, <<"9">>, <<"1", "0">>, <<"3", "0">>, <<"0", "1", "0">>}
PatchTexts == {<<"0">>, <<"9">>}
VersionSuffixes == {<<>>, <<".", "1">>, <<"\n">>}

Stdouts ==
    {<<>>, <<"h", "e", "l", "l", "o">>, <<"2", ".", "1", "0">>, <<"2", ".", "1", "0", ".">>}
    \cup {p \o ma \o <<".">> \o mi \o <<".">> \o pa \o x :
             p \in VersionPrefixes, ma \in MajorTexts, mi \in MinorTexts,
             pa \in PatchTexts, x \in VersionSuffixes}

Outputs ==
    {[kind |-> "io_error", code |-> 0, stdout |-> <<>>]}
    \cup {[kind |-> "exited", code |-> c, stdout |-> o] : c \in {0, 1}, o \in Stdouts}

Impures == {None, Some(TRUE), Some(FALSE)}
ExportArgs ==
    {[impure |-> i, flake_references |-> r] :
        i \in Impures, r \in {None, Some(<<FlakeA>>), Some(<<FlakeB, FlakeA>>)}}
MatchingConfigs ==
    {q \in SeqsUpTo({[flake_reference |-> f, impure |-> i] : f \in Flakes, i \in Impures},
                    MaxFlakeRefs) :
        \A i, j \in DOMAIN q : i # j => q[i].flake_reference # q[j].flake_reference}

InitCalls ==
    /\ MachineIdle
    /\ ResolverIdle
    /\ CacheIdle
    /\ \/ \E files \in HashFilesSystems,
            filenames \in SeqsUpTo(WatchedPaths, MaxHashFiles) :
              call = Pending("hash_files", [files |-> files, filenames |-> filenames])
       \/ \E files \in HashFilesSystems, flake_reference \in Flakes :
              call = Pending("NixProfileCache::new",
                             [files |-> files,
                              cache_dir |-> get_cache_sub_dir(CacheDir, flake_reference),
                              flake_reference |-> flake_reference])
       \/ \E output \in Outputs :
              call = Pending("check_nix_program_version", [output |-> output])
       \/ \E args \in ExportArgs, matching \in MatchingConfigs :
              call = Pending("get_cache_profile", [args |-> args, matching |-> matching])
       \/ \E shell \in Shells, env_vars_state \in EngineEnvVarsState,
            sdev \in {None, Some(SEMICOLON_DELIMITED_ENV_VARS)} :
              call = Pending("export", [shell |-> shell, env_vars_state |-> env_vars_state,
                                        semicolon_delimited_env_vars |-> sdev])

HashFiles ==
    /\ Calls("hash_files")
    /\ Returns(hash_files(call.args.files, call.args.filenames))

NixProfileCacheNew ==
    /\ Calls("NixProfileCache::new")
    /\ Returns(NixProfileCache_new(call.args.files, call.args.cache_dir,
                                   call.args.flake_reference))

CheckNixProgramVersion ==
    /\ Calls("check_nix_program_version")
    /\ Returns(check_nix_program_version(call.args.output))

\* The map over rcs in print_export, as far as the evaluation mode goes
GetCacheProfiles ==
    /\ Calls("get_cache_profile")
    /\ Returns(get_cache_profiles(call.args.args,
                                  config_values(call.args.args, call.args.matching)))

\* export of one of the emitters, as print_shell_export and the tests call it
ShellsExport ==
    /\ Calls("export")
    /\ Returns(shells_export(call.args.shell, call.args.env_vars_state,
                             call.args.semicolon_delimited_env_vars))

NextCalls ==
    \/ HashFiles
    \/ NixProfileCacheNew
    \/ CheckNixProgramVersion
    \/ GetCacheProfiles
    \/ ShellsExport

SpecCalls == InitCalls /\ [][NextCalls]_vars

----------------------------------------------------------------------------
(* Properties of hash_files, the version probe and the evaluation mode *)

Existing(files, filenames) == SelectSeq(filenames, LAMBDA f : files[f].present)

RECURSIVE Contents(_, _)
\* The contents of the files of a list one after the other
Contents(files, filenames) ==
    IF filenames = <<>> THEN <<>>
    ELSE files[filenames[1]].content \o Contents(files, Tail(filenames))

\* C27: hash_files returns what it returns for the list without the paths
\* that do not exist; the digest is that of the contents of the existing
\* files in list order, a file listed twice counted twice; it fails with
\* "No files found to hash" when no listed file exists, and then
\* NixProfileCache::new fails for a local flake.
C27_HashFiles ==
    /\ Returned("hash_files") =>
          LET files == call.args.files
              existing == Existing(files, call.args.filenames)
          IN /\ call.result = hash_files(files, existing)
             /\ existing = <<>> =>
                   call.result = [ok |-> FALSE, error |-> "No files found to hash"]
             /\ existing # <<>> =>
                   call.result = [ok |-> TRUE, hash |-> Sha1(Contents(files, existing))]
    /\ Returned("NixProfileCache::new") =>
          ((/\ IsLocal(call.args.flake_reference)
            /\ \A f \in WatchedPaths : ~call.args.files[f].present)
               => ~call.result.ok)

\* a list with a missing path between two existing files, one of them twice
C27_Witness ==
    /\ Returned("hash_files")
    /\ call.args.filenames
          = <<<<FlakeB, "flake.lock">>, <<FlakeB, "devshell.toml">>, <<FlakeB, "flake.lock">>>>
    /\ call.args.files[<<FlakeB, "flake.lock">>].present
    /\ ~call.args.files[<<FlakeB, "devshell.toml">>].present
    /\ call.result = [ok |-> TRUE, hash |-> Sha1(<<"y", "y">>)]

\* The first major.minor.patch token of the stdout of the probe
FirstToken == SEMVER_RE_find(call.args.output.stdout)

\* major.minor.patch read as numbers is at least 2.10.0
AtLeastRequired(token) ==
    LET major == ParseNumber(token.major)
        minor == ParseNumber(token.minor)
        patch == ParseNumber(token.patch)
    IN \/ major > 2
       \/ major = 2 /\ minor > 10
       \/ major = 2 /\ minor = 10 /\ patch >= 0

ProcessFailed == call.args.output.kind = "io_error" \/ call.args.output.code # 0
EmptyStdout == ~ProcessFailed /\ call.args.output.stdout = <<>>
NoToken == ~ProcessFailed /\ ~EmptyStdout /\ ~IsSome(FirstToken)
NotSemver ==
    /\ ~ProcessFailed /\ ~EmptyStdout /\ IsSome(FirstToken)
    /\ \/ LeadingZero(FirstToken.v.major)
       \/ LeadingZero(FirstToken.v.minor)
       \/ LeadingZero(FirstToken.v.patch)
TooOld ==
    /\ ~ProcessFailed /\ ~EmptyStdout /\ IsSome(FirstToken) /\ ~NotSemver
    /\ ~AtLeastRequired(FirstToken.v)

\* The errors of the probe (their texts without the quotation marks)
ProcessErrors == {"io error", "failed with error: process exited unsuccessfully"}
EmptyError == "nix --version failed to execute."
NoTokenError == "SemVer from nix --version could not be found."
TooOldError == "nix version too old for flakes."

\* C28 as stated: the probe succeeds iff the process exits 0, the stdout
\* is not empty and holds a major.minor.patch token, and the first token
\* is numerically at least 2.10.0; a failure is one of four errors, one
\* per cause.
C28_ProbeFourErrors ==
    Returned("check_nix_program_version") =>
        /\ call.result.ok <=>
              /\ ~ProcessFailed /\ ~EmptyStdout /\ IsSome(FirstToken)
              /\ AtLeastRequired(FirstToken.v)
        /\ ~call.result.ok =>
              call.result.error \in ProcessErrors \cup {EmptyError, NoTokenError, TooOldError}

\* C28: the probe succeeds iff the process exits 0, the stdout is not
\* empty and holds a major.minor.patch token, the first token is a
\* semantic version (no number with a leading zero) and is numerically at
\* least 2.10.0; each of the five causes of failure has its own error.
C28_Probe ==
    Returned("check_nix_program_version") =>
        /\ call.result.ok <=>
              /\ ~ProcessFailed /\ ~EmptyStdout /\ IsSome(FirstToken)
              /\ ~NotSemver /\ AtLeastRequired(FirstToken.v)
        /\ ProcessFailed <=> call.result.error \in ProcessErrors
        /\ EmptyStdout <=> call.result.error = EmptyError
        /\ NoToken <=> call.result.error = NoTokenError
        /\ NotSemver <=> call.result.error = "invalid leading zero"
        /\ TooOld <=> call.result.error = TooOldError

\* "nix 2.9.9" is rejected as too old
C28_Witness ==
    /\ Returned("check_nix_program_version")
    /\ call.args.output.code = 0
    /\ call.args.output.stdout = <<"n", "i", "x", " ", "2", ".", "9", ".", "9">>
    /\ call.result = [ok |-> FALSE, error |-> TooOldError]

\* The value that decides the mode under "CLI, else the first matching
\* config that sets one, else Pure"
FirstSet(args_impure, configs) ==
    IF IsSome(args_impure) THEN args_impure
    ELSE IF \E i \in DOMAIN configs : IsSome(configs[i].impure)
    THEN configs[CHOOSE i \in DOMAIN configs :
                    /\ IsSome(configs[i].impure)
                    /\ \A j \in DOMAIN configs : IsSome(configs[j].impure) => i <= j].impure
    ELSE None

\* The configs of the request whose modes were selected
RequestConfigs == config_values(call.args.args, call.args.matching)

\* C29 as stated: one value decides the mode of the request, the CLI
\* --impure if given, else the impure of the first matching config that
\* sets one; Impure only when that value is true.
C29_FirstMatchingConfig ==
    Returned("get_cache_profile") =>
        \A i \in DOMAIN call.result :
            call.result[i].evaluation_mode = "Impure"
                <=> FirstSet(call.args.args.impure, RequestConfigs) = Some(TRUE)

\* C29: for each matching config the CLI --impure is used if given, else
\* the impure of that config, else Pure; Impure only when the value used
\* is true.
C29_EvaluationMode ==
    Returned("get_cache_profile") =>
        /\ DOMAIN call.result = DOMAIN RequestConfigs
        /\ \A i \in DOMAIN call.result :
              LET cli == call.args.args.impure
                  own == RequestConfigs[i].impure
              IN /\ call.result[i].flake_reference = RequestConfigs[i].flake_reference
                 /\ call.result[i].evaluation_mode = "Impure"
                       <=> \/ cli = Some(TRUE)
                           \/ cli = None /\ own = Some(TRUE)

\* no --impure; the first config sets none and is Pure, the second sets
\* true and is Impure
C29_Witness ==
    /\ Returned("get_cache_profile")
    /\ call.args.args = [impure |-> None, flake_references |-> None]
    /\ call.args.matching = <<[flake_reference |-> FlakeA, impure |-> None],
                              [flake_reference |-> FlakeB, impure |-> Some(TRUE)]>>
    /\ call.result = <<[flake_reference |-> FlakeA, evaluation_mode |-> "Pure"],
                       [flake_reference |-> FlakeB, evaluation_mode |-> "Impure"]>>

----------------------------------------------------------------------------
(* Properties of exports with --force-update and of watched files *)

\* C31: an export run with --force-update in a directory with matched
\* configs, no step of which fails, updates the profile of every matched
\* config, in order, also when ENVOLUNTARY_ENV_STATE already lists the
\* same flakes.
C31_ForceUpdate ==
    [][(Export(<<TRUE, NoFault>>) /\ rcs # <<>> /\ ~Garbled)
          => out'.updated = FlakeReferences(rcs)]_vars

\* The flakes in seq
InSeq(seq) == {seq[i] : i \in DOMAIN seq}

\* The local flakes that are matched, listed in the state variable, and
\* have a watched file newer than their profile
ChangedInPlace ==
    {f \in InSeq(FlakeReferences(rcs)) :
        /\ IsLocal(f) /\ cache[f] = "stale"
        /\ HasVar /\ OldState.ok /\ f \in InSeq(OldState.flake_references)}

\* C34: an export that runs without failure while a matched local flake,
\* already listed in ENVOLUNTARY_ENV_STATE, has a watched file newer than
\* its profile updates that profile and emits the new environment.
C34_WatchedFileRefresh ==
    [][(/\ phase = "prompt" /\ phase' = "eval"
        /\ ChangedInPlace # {}
        /\ out'.failure = NoFault)
       => (/\ \A f \in ChangedInPlace : f \in InSeq(out'.updated) /\ cache'[f] = "fresh"
           /\ \E i \in DOMAIN out'.emissions : out'.emissions[i].kind = "new")]_vars

----------------------------------------------------------------------------
(* The matched list of an export: match_rcs and its callback
   (cli/src/shell.rs, env-hooks/src/state.rs) *)

\* The callback print_export hands to match_rcs, run for current_dir
match_rcs_cb(args, envoluntary_config, fs, home_dir, current_dir) ==
    LET entries == matching_entries(envoluntary_config, fs, home_dir, current_dir)
    IN config_values(args, [i \in DOMAIN entries |-> entries[i].config])

\* CurrentDirState::match_rcs: NoRcs for the empty list
match_rcs(rcs_list) ==
    IF rcs_list = <<>> THEN [kind |-> "NoRcs", rcs |-> <<>>]
    ELSE [kind |-> "Rcs", rcs |-> rcs_list]

\* The command lines of an export: --impure and --flake-references
MatchArgs ==
    {[impure |-> i, flake_references |-> r] :
        i \in Impures,
        r \in {None, Some(<<FlakeA>>), Some(<<FlakeB, FlakeA>>), Some(<<FlakeA, FlakeA>>)}}

\* `shell export` up to match_rcs, run once with args in current_dir
MatchRcs(args, current_dir) ==
    /\ EngineIdle
    /\ call' = [fn |-> "match_rcs",
                args |-> [args |-> args, current_dir |-> current_dir],
                done |-> TRUE,
                result |-> match_rcs(match_rcs_cb(args, load(configFile), fsys, home,
                                                  current_dir))]
    /\ UNCHANGED <<machineVars, resolverVars, cacheVars>>

NextMatch == \E args \in MatchArgs, current_dir \in QueryPaths : MatchRcs(args, current_dir)

SpecMatch == InitResolver /\ [][NextMatch]_vars

\* C32: with --flake-references the matched list is the given references
\* in the order given, each with the --impure value of the command line,
\* in every directory and with every config file.
C32_FlakeReferences ==
    (Returned("match_rcs") /\ IsSome(call.args.args.flake_references)) =>
        LET given == call.args.args.flake_references.v
        IN /\ call.result.kind = "Rcs"
           /\ call.result.rcs =
                 [i \in DOMAIN given |->
                     [flake_reference |-> given[i], impure |-> call.args.args.impure]]

\* the config file matches the directory with another list
C32_Witness ==
    /\ Returned("match_rcs")
    /\ call.args.args = [impure |-> Some(TRUE), flake_references |-> Some(<<FlakeB, FlakeA>>)]
    /\ LET entries == matching_entries(load(configFile), fsys, home, call.args.current_dir)
       IN Len(entries) = 2 /\ entries[1].config.flake_reference = FlakeA
    /\ call.result.rcs = <<[flake_reference |-> FlakeB, impure |-> Some(TRUE)],
                           [flake_reference |-> FlakeA, impure |-> Some(TRUE)]>>

----------------------------------------------------------------------------
(* Properties of the shell emitters *)

\* The keywords of a shell
ExportKeyword(shell) == IF shell = "Fish" THEN "set -x -g" ELSE "export"
UnsetKeyword(shell) == IF shell = "Fish" THEN "set -e -g" ELSE "unset"

\* The quoted words of a line after the name, in order
ValueWords(line) ==
    LET words == SelectSeq(line, LAMBDA piece : piece.t # "lit")
    IN [i \in 1..(Len(words) - 1) |-> words[i + 1].s]

\* The ':'-separated parts of a value
Parts(value) == [i \in DOMAIN value.elems |-> Str(<<value.elems[i]>>)]

\* C33: bash, zsh and fish: one line per entry in the map's order, an
\* export line (keyword, name, value) for a present value, the empty
\* string included, an unset line (keyword, name) for an absent one, and
\* no line for the empty map; in fish a variable of the delimited set has
\* its ':'-separated parts as the words of the value, every other value is
\* one word.  JSON: one object with a member per entry in the map's order,
\* the value or null.
C33_Emitters ==
    Returned("export") =>
        LET shell == call.args.shell
            m == call.args.env_vars_state
            sdev == call.args.semicolon_delimited_env_vars
            r == call.result
        IN IF shell = "Json"
           THEN /\ r.t = "object"
                /\ Len(r.members) = Len(m)
                /\ \A i \in DOMAIN m :
                      /\ r.members[i][1] = m[i][1]
                      /\ r.members[i][2] = IF IsSome(m[i][2]) THEN JsonString(m[i][2])
                                           ELSE JsonNull
           ELSE /\ Len(r) = Len(m)
                /\ m = <<>> => r = <<>>
                /\ \A i \in DOMAIN m :
                      /\ r[i][3] = Quoted(shell, Str(<<m[i][1]>>))
                      /\ r[i][Len(r[i])] = Lit(";")
                      /\ IF IsSome(m[i][2])
                         THEN /\ r[i][1] = Lit(ExportKeyword(shell))
                              /\ ValueWords(r[i]) =
                                    IF /\ shell = "Fish" /\ IsSome(sdev)
                                       /\ m[i][1] \in sdev.v
                                    THEN Parts(m[i][2])
                                    ELSE <<m[i][2]>>
                         ELSE /\ r[i][1] = Lit(UnsetKeyword(shell))
                              /\ ValueWords(r[i]) = <<>>

\* fish prints PATH=/a:/b as the list /a /b after an unset line
C33_Witness ==
    /\ Returned("export")
    /\ call.args.shell = "Fish"
    /\ call.args.semicolon_delimited_env_vars = Some(SEMICOLON_DELIMITED_ENV_VARS)
    /\ call.args.env_vars_state = << <<"FOO", None>>, <<"PATH", Str(<<"/a", "/b">>)>> >>
    /\ call.result[1] = fish_unset_var("FOO")
    /\ ValueWords(call.result[2]) = <<Str(<<"/a">>), Str(<<"/b">>)>>

----------------------------------------------------------------------------
(* Properties of update(): the order of its steps, and its failures *)

\* The steps of a whole update() of the process of flake f
UpdateSteps(f) ==
    LET self == procs[f].self
    IN <<Step("clean_old_gcroots", NoName, NoName, ""),
         Step("nix print-dev-env", tmp_profile(f), NoName, f),
         Step("write_all", self.profile_rc_file, NoName, ""),
         Step("nix build", self.profile_symlink, tmp_profile(f), ""),
         Step("remove_file", tmp_profile(f), NoName, "")>>
       \o (IF IsLocal(f)
           THEN <<Step("nix flake archive", NoName, NoName, f),
                  Step("nix build", Name("flake-inputs/", StoreSource.tag, ""),
                       StoreSource, "")>>
           ELSE <<>>)

IsPrefix(s, t) == Len(s) <= Len(t) /\ s = SubSeq(t, 1, Len(s))

\* C35: the steps of update() come in this order: the cache directory is
\* cleaned, nix print-dev-env --profile <temporary profile>, the rc file is
\* written, nix build --out-link <profile symlink> <temporary profile>, the
\* temporary profile is removed, then for a local flake only nix flake
\* archive and one nix build --out-link flake-inputs/<basename> <store
\* path> per input; the directory holds nothing but flake-inputs when
\* print-dev-env is invoked, the rc file and no profile symlink when the
\* profile is built, and the temporary profile until that build is done.
C35_UpdateOrder ==
    \A f \in Flakes :
        LET self == procs[f].self
            dir == CacheDirOf(disk, self)
        IN /\ procs[f].pc # "idle" => IsPrefix(procs[f].log, UpdateSteps(f))
           /\ Updated(f) => procs[f].log = UpdateSteps(f)
           /\ procs[f].pc = "print_dev_env" =>
                 dir.entries = {Directory(self.flake_inputs_dir)}
           /\ procs[f].pc = "add_gcroot" =>
                 /\ is_file(dir, self.profile_rc_file)
                 /\ ~Has(dir, self.profile_symlink)
                 /\ Has(dir, tmp_profile(f))
           /\ procs[f].pc = "remove_file" =>
                 /\ Has(dir, self.profile_symlink)
                 /\ Has(dir, tmp_profile(f))

\* both flakes were updated, the local one with its input pinned
C35_Witness ==
    /\ Updated(FlakeA) /\ Len(procs[FlakeA].log) = 5
    /\ Updated(FlakeB) /\ Len(procs[FlakeB].log) = 7
    /\ procs[FlakeB].log[7].installable = StoreSource

\* The places of a process inside update()
UpdatePcs == {"clean_old_gcroots", "print_dev_env", "add_gcroot", "remove_file", "flake_inputs"}

\* C38: when update() fails at a step, needs_update on the same cache
\* entry is true afterwards.
C38_FailedUpdateRetried ==
    [][\A f \in Flakes :
          (procs[f].pc \in UpdatePcs /\ procs'[f].pc = "idle" /\ procs'[f].exit = "err")
              => NixProfileCache_needs_update(disk', procs[f].self)]_vars

----------------------------------------------------------------------------
(* Properties of exports whose nix probe fails or whose state variable is
   corrupted *)

ProbeFault == [at |-> 0, step |-> "check_nix_version"]

\* C39: an export whose nix probe fails (nix missing, failing or older than
\* 2.10.0) exits non-zero with empty stdout before the directory is resolved
\* and before the state variable is read, in all four cases of matched list
\* and state variable; it touches no profile, and the hook that evaluates
\* its output leaves the environment as it was, so nothing is reset on
\* leaving a directory.
C39_ProbeFirst ==
    [][Export(<<FALSE, ProbeFault>>)
          => (/\ out'.exit = 1
              /\ out'.emissions = <<>>
              /\ out'.path = "none"
              /\ out'.updated = <<>> /\ out'.harvested = <<>>
              /\ cache' = cache
              /\ Eval(env, Stdout(out'.emissions)) = env)]_vars

\* The probe failed after the shell left a directory whose environment is
\* loaded: the reset that was due is not emitted.
C39_Witness ==
    /\ Exported /\ NoRcs /\ HasVar /\ ~Garbled
    /\ out.failure = ProbeFault /\ out.exit = 1
    /\ env # origEnv

\* C40: while ENVOLUNTARY_ENV_STATE holds a value that cannot be decoded,
\* every export fails with empty stdout and touches no profile, whatever the
\* matched list, and no step of the tool or of the hook changes the
\* variable: the state persists.
C40_NoRecovery ==
    [][Garbled
          => (/\ env'[ENVOLUNTARY_ENV_STATE_VAR_KEY] = env[ENVOLUNTARY_ENV_STATE_VAR_KEY]
              /\ (phase = "prompt" /\ phase' = "eval")
                    => (/\ out'.exit = 1
                        /\ out'.emissions = <<>>
                        /\ out'.updated = <<>>
                        /\ cache' = cache))]_vars

\* The third export in a row failed on the corrupted variable, in a
\* directory with two matched configs after one with none.
C40_Witness ==
    /\ Exported /\ Garbled /\ prompts = MaxPrompts
    /\ Len(rcs) = 2 /\ applied.rcs = <<>> /\ applied.exit = 1
    /\ out.failure.step = "decode" /\ out.exit = 1

----------------------------------------------------------------------------
(* Properties of the ignored variables *)

\* The names the program is to ignore, among the names of the model
IgnoredNames ==
    {"DIRENV_CONFIG", "DIRENV_BASH", "DIRENV_IN_ENVRC", "COMP_WORDBREAKS",
     "PS1", "OLDPWD", "PWD", "SHELL", "SHELLOPTS", "SHLVL", "_", BASH_FUNC_KEY}

\* the reset stored in the blob an EnvVarsState exports, if it exports one
StoredReset(env_vars_state) ==
    LET blob == get(env_vars_state, ENVOLUNTARY_ENV_STATE_VAR_KEY)
    IN IF blob.kind = "blob" /\ decode(blob).ok
       THEN decode(blob).env_vars_reset
       ELSE <<>>

\* The values PS1 can have in the shell that runs the export
PS1Values == {None, Str(<<"$ ">>), Str(<<"a> ">>), Str(<<"% ">>)}

\* C36: no print_shell_export call of an export names an ignored variable,
\* neither to export nor to unset it, and no blob it exports stores one in
\* its reset; and the variables an export harvests for a flake and the old
\* values it keeps for the reset are the same whatever the value of the
\* ignored variable PS1 in its environment.
C36_Ignored ==
    [][(phase = "prompt" /\ phase' = "eval")
          => (/\ \A i \in DOMAIN out'.emissions :
                    /\ KeysOf(out'.emissions[i].state) \cap IgnoredNames = {}
                    /\ KeysOf(StoredReset(out'.emissions[i].state)) \cap IgnoredNames = {}
              /\ \A ps1 \in PS1Values : \A f \in Flakes :
                    get_new_env_vars([env EXCEPT !["PS1"] = ps1], f)
                        = get_new_env_vars(env, f))]_vars

\* Both flakes were loaded in a shell whose PS1 differs from the one the
\* first rc sets; the second rc exports a bash function.
C36_Witness ==
    /\ SetNewDone /\ Len(rcs) = 2
    /\ IsSome(env["PS1"])
    /\ \E f \in Flakes :
          /\ contains_key(get_env_vars_from_bash(f, <<>>), "PS1")
          /\ get(get_env_vars_from_bash(f, <<>>), "PS1") # env["PS1"]
    /\ \E f \in Flakes : contains_key(get_env_vars_from_bash(f, <<>>), BASH_FUNC_KEY)
    /\ contains_key(StoredReset(NewState), "FOO")

----------------------------------------------------------------------------
(* Properties of the composition across matched configs *)

\* The EnvVarsStates get_export_env_vars_state can return for the i-th
\* matched config in the environment of the export
ConfigStates(i) ==
    {get_export_env_vars_state(rcs[i].flake_reference, env, key_order) :
        key_order \in Orderings(NewKeys(rcs[i].flake_reference, env))}

\* The names the i-th matched config exports
ConfigKeys(i) ==
    NewKeys(rcs[i].flake_reference, env) \cup {ENVOLUNTARY_ENV_STATE_VAR_KEY}

\* The last matched config that exports the name
LastConfig(k) ==
    CHOOSE i \in DOMAIN rcs :
        /\ k \in ConfigKeys(i)
        /\ \A j \in DOMAIN rcs : k \in ConfigKeys(j) => j <= i

\* C37: the EnvVarsState a successful set-new emits has every name at most
\* once, has every name some matched config exports, also one only an
\* earlier config exports, and gives each name the value of the last
\* matched config that exports it.
C37_Composition ==
    SetNewDone =>
        /\ Cardinality(KeysOf(NewState)) = Len(NewState)
        /\ KeysOf(NewState) = UNION {ConfigKeys(i) : i \in DOMAIN rcs}
        /\ \A k \in KeysOf(NewState) :
              \E config_state \in ConfigStates(LastConfig(k)) :
                  get(NewState, k) = get(config_state, k)

\* Two configs were composed: both export FOO with different values, only
\* the first exports PATH and only the second XDG_DATA_DIRS.
C37_Witness ==
    /\ SetNewDone /\ Len(rcs) = 2
    /\ \A i \in DOMAIN rcs : "FOO" \in ConfigKeys(i)
    /\ \A s1 \in ConfigStates(1) : \A s2 \in ConfigStates(2) :
          get(s1, "FOO") # get(s2, "FOO")
    /\ "PATH" \in ConfigKeys(1) \ ConfigKeys(2)
    /\ "XDG_DATA_DIRS" \in ConfigKeys(2) \ ConfigKeys(1)
    /\ LastConfig("PATH") = 1

====
